---------------------------- MODULE Spec2Model ----------------------------
(***************************************************************************)
(* A model of the chess engine core: the score algebra (score.rs), the     *)
(* transposition table (hash.rs), the move-ordering generator              *)
(* (moveorder.rs), the iterative-deepening alpha-beta searcher (search.rs), *)
(* the search worker envelope (searchinterface.rs) and the command loop    *)
(* (uci.rs).                                                               *)
(***************************************************************************)
EXTENDS Integers, Sequences, FiniteSets, TLC

\* ------------------------------------------------------------------ state
VARIABLES
    \* hash.rs, struct HashMap (owned by the searcher)
    slots,          \* the zero-filled allocation: slot index -> HashEntry
    count,          \* HashMap.count
    capacity,       \* HashMap.capacity
    generation,     \* HashMap.generation (u8)
    last,           \* history: the last table operation and its arguments
    written,        \* history: the slots written since the latest new_generation
    \* the chess crate: the positions the engine is run on, and the commands
    \* the front end still has to give
    game,
    plan,
    \* uci.rs, struct UciClient
    uci_position,   \* UciClient.position
    reply,          \* history: the command last handled and what it printed
    \* searchinterface.rs, struct StopConditions
    stop_now,
    is_running,
    depth_cap,      \* StopConditions.depth
    movetime,
    \* searchinterface.rs, struct SearchInterface and the thread calling it
    channel,        \* the mpsc channel: the commands sent and not yet received
    upc,            \* where the calling thread is
    uarg,           \* the arguments of the go() call in progress
    \* search.rs, the search thread
    wpc,            \* where the search thread is
    root,           \* search(): position
    iter,           \* search(): the loop variable depth
    stack,          \* the alphabeta_search calls in progress, innermost last
    ret,            \* the value the last alphabeta_search call returned
    infos,          \* the depths of the info lines of the search in progress
    searches,       \* history: the number of searches started
    bestmoves,      \* history: the bestmove lines printed
    cur,            \* history: the go() call whose command is being served
    depth_read      \* history: the depth cap the search last read

hashVars == <<slots, count, capacity, generation, last, written>>
stopVars == <<stop_now, is_running, depth_cap, movetime>>
uciVars == <<channel, upc, uarg, plan>>
workerVars == <<wpc, root, iter, stack, ret, infos, searches, bestmoves, cur, depth_read>>
clientVars == <<uci_position, reply>>
searchVars == <<game, clientVars, stopVars, uciVars, workerVars>>

vars == <<hashVars, searchVars>>

\* ------------------------------------------------------------ score.rs
BEST_SCORE == 32767
MATE == 32766
MATE_RANGE_BOTTOM == MATE - 255
EVEN == 0
NO_SCORE == -32768

\* BoardScore::neg
neg(s) == IF s # NO_SCORE THEN 0 - s ELSE NO_SCORE

MATED == neg(MATE)
MATED_RANGE_TOP == MATED + 255
WORST_SCORE == neg(BEST_SCORE)

\* BoardScore::is_mate_score
is_mate_score(s) ==
    s >= MATE_RANGE_BOTTOM \/ (s <= MATED_RANGE_TOP /\ s # NO_SCORE)

\* a score that keeps its ply count on the way up the tree
increment_mate_plies_not(s) == s

\* an increment that does not saturate at the far ends of the mate ranges
increment_mate_plies_unsaturated(s) ==
    IF s >= MATE_RANGE_BOTTOM /\ s <= MATE THEN s - 1
    ELSE IF s <= MATED_RANGE_TOP /\ s >= MATED THEN s + 1
    ELSE s

\* BoardScore::increment_mate_plies
increment_mate_plies(s) ==
    IF s > MATE_RANGE_BOTTOM /\ s <= MATE THEN s - 1
    ELSE IF s < MATED_RANGE_TOP /\ s >= MATED THEN s + 1
    ELSE s

\* a decrement that stops at MATE and at MATED
decrement_mate_plies_saturating(s) ==
    IF s >= MATE_RANGE_BOTTOM /\ s < MATE THEN s + 1
    ELSE IF s <= MATED_RANGE_TOP /\ s > MATED THEN s - 1
    ELSE s

\* BoardScore::decrement_mate_plies
decrement_mate_plies(s) ==
    IF s >= MATE_RANGE_BOTTOM /\ s <= MATE THEN s + 1
    ELSE IF s <= MATED_RANGE_TOP /\ s >= MATED THEN s - 1
    ELSE s

\* enum BoundedScore
Exact(s) == [kind |-> "Exact", s |-> s]
LowerBound(s) == [kind |-> "LowerBound", s |-> s]
UpperBound(s) == [kind |-> "UpperBound", s |-> s]

\* BoundedScore::unwrap
unwrap(b) == b.s

is_exact(b) == b.kind = "Exact"
is_lowerbound(b) == b.kind = "LowerBound"
is_upperbound(b) == b.kind = "UpperBound"

\* a negation of bounded scores that keeps the kind of bound
bounded_neg_keeps_kind(b) == [b EXCEPT !.s = neg(b.s)]

\* BoundedScore::neg
bounded_neg(b) ==
    CASE b.kind = "Exact" -> Exact(neg(b.s))
      [] b.kind = "LowerBound" -> UpperBound(neg(b.s))
      [] b.kind = "UpperBound" -> LowerBound(neg(b.s))

\* BoundedScore::increment_mate_plies
bounded_increment_mate_plies(b) == [b EXCEPT !.s = increment_mate_plies(b.s)]

\* the derived Ord of BoardScore (i16 comparison)
cmp(a, b) == IF a < b THEN "Less" ELSE IF a = b THEN "Equal" ELSE "Greater"

\* an order that decides pairs of the same kind only
partial_cmp_same_kind_only(x, y) ==
    IF x.kind = y.kind THEN cmp(x.s, y.s) ELSE "None"

\* an order that compares the inner scores whatever the kinds
partial_cmp_by_score(x, y) == cmp(x.s, y.s)

\* an order whose two guards for pairs of different kinds are exchanged
partial_cmp_guards_exchanged(x, y) ==
    CASE x.kind = y.kind -> cmp(x.s, y.s)
      [] /\ \/ x.kind = "LowerBound" /\ y.kind = "Exact"
            \/ x.kind = "LowerBound" /\ y.kind = "UpperBound"
            \/ x.kind = "Exact" /\ y.kind = "UpperBound"
         /\ x.s <= y.s -> cmp(x.s, y.s)
      [] /\ \/ x.kind = "Exact" /\ y.kind = "LowerBound"
            \/ x.kind = "UpperBound" /\ y.kind = "LowerBound"
            \/ x.kind = "UpperBound" /\ y.kind = "Exact"
         /\ x.s >= y.s -> cmp(x.s, y.s)
      [] OTHER -> "None"

\* PartialOrd for BoundedScore
partial_cmp(x, y) ==
    CASE x.kind = y.kind -> cmp(x.s, y.s)
      [] /\ \/ x.kind = "LowerBound" /\ y.kind = "Exact"
            \/ x.kind = "LowerBound" /\ y.kind = "UpperBound"
            \/ x.kind = "Exact" /\ y.kind = "UpperBound"
         /\ x.s >= y.s -> cmp(x.s, y.s)
      [] /\ \/ x.kind = "Exact" /\ y.kind = "LowerBound"
            \/ x.kind = "UpperBound" /\ y.kind = "LowerBound"
            \/ x.kind = "UpperBound" /\ y.kind = "Exact"
         /\ x.s <= y.s -> cmp(x.s, y.s)
      [] OTHER -> "None"

\* the derived PartialEq of BoundedScore: the same variant and the same score
bounded_eq(x, y) == x.kind = y.kind /\ x.s = y.s

\* x > y through PartialOrd
bounded_gt(x, y) == partial_cmp(x, y) = "Greater"

\* ------------------------------------------------------------- hash.rs
NUM_SLOTS_PER_HASH == 4

\* A u64 hash is kept as four 16-bit limbs <<l3, l2, l1, l0>>, most significant
\* first, so that rotation, wrapping addition and remainder are the 64-bit ones.
Limb == 65536

\* u64::rotate_left(r), 0 <= r < 64: the limbs move up by r \div 16 places and
\* the bits by r % 16
rotate_left(h, r) ==
    LET q == r \div 16
        b == r % 16
        hi == 2 ^ (16 - b)
        lo == 2 ^ b
        l(i) == h[((i - 1 + q) % 4) + 1]
    IN  [i \in 1..4 |-> (l(i) % hi) * lo + (l((i % 4) + 1) \div hi)]

\* u64::wrapping_add(0x1000100010005)
wrapping_add_prime(h) ==
    LET s0 == h[4] + 5
        s1 == h[3] + 1 + (s0 \div Limb)
        s2 == h[2] + 1 + (s1 \div Limb)
        s3 == h[1] + 1 + (s2 \div Limb)
    IN  << s3 % Limb, s2 % Limb, s1 % Limb, s0 % Limb >>

\* hash % capacity
hash_mod(h, n) ==
    LET r3 == h[1] % n
        r2 == (r3 * Limb + h[2]) % n
        r1 == (r2 * Limb + h[3]) % n
    IN  (r1 * Limb + h[4]) % n

SeqContains(s, x) == \E i \in 1..Len(s) : s[i] = x

\* the slot tried in iteration k of the for loop: the hash has been rotated
\* left by 11 bits k times
next_slot(h, n, k) == hash_mod(rotate_left(h, (11 * k) % 64), n)

\* a get_slot_idx_for_hash that takes the slots of its first four turns as they
\* come
slot_idx_loop_first_turns(h, n, result, k) ==
    << next_slot(h, n, 0), next_slot(h, n, 1), next_slot(h, n, 2), next_slot(h, n, 3) >>

\* the loop of get_slot_idx_for_hash: `result` holds the slots found so far and
\* `k` is the iteration the for loop is at. Iterations whose slot is already in
\* `result` only rotate the hash; after 64 of them the hash, rotated 64 times,
\* is incremented and the for loop starts again.
RECURSIVE slot_idx_loop(_, _, _, _)
slot_idx_loop(h, n, result, k) ==
    LET fresh == {j \in k..63 : ~SeqContains(result, next_slot(h, n, j))}
    IN  IF fresh # {}
        THEN LET j == CHOOSE j \in fresh : \A i \in fresh : j <= i
                 found == Append(result, next_slot(h, n, j))
             IN  IF Len(found) >= NUM_SLOTS_PER_HASH THEN found
                 ELSE slot_idx_loop(h, n, found, j + 1)
        ELSE slot_idx_loop(wrapping_add_prime(rotate_left(h, (11 * 64) % 64)),
                           n, result, 0)

\* bounds of the table specification
MaxCapacity == 5
MaxGeneration == 2

\* the hashes inserted: zero, all ones, and three that share candidate slots
HashSeq ==
    << <<0, 0, 0, 0>>, <<65535, 65535, 65535, 65535>>, <<0, 0, 0, 1>>,
       <<0, 0, 0, 6>>, <<4660, 22136, 39612, 57072>> >>
Hashes == {HashSeq[k] : k \in 1..Len(HashSeq)}

\* ---- the chess crate: positions
\* A position is a number; game[p] gives its legal moves (the position each one
\* leads to, in MoveGen's order), whether the side to move is in check, and its
\* material balance.
\* the legal moves of each position: from position 1 one line of play runs
\* 2, 4, 6, 9 and another 3, 5, where 5 has the replies 7, which ends the game,
\* and 8
Moves ==
    << <<2, 3>>, <<4>>, <<5>>, <<6>>, <<7, 8>>, <<9>>, <<>>, <<10>>, <<11>>,
       <<11>>, <<>> >>

Positions == 1..Len(Moves)

\* Board::get_hash: a 64-bit hash, different for every position and never zero
PosHash(p) ==
    << (p * 40503) % Limb, (p * 30011) % Limb, (p * 7919) % Limb, (p * 10007) % Limb >>
PosHashes == {PosHash(p) : p \in Positions}

\* the capacity of the searcher's table in the model
SearchCapacity == 16

\* the capacities and hashes of the model, with their candidate slots worked out
\* once
Capacities == (NUM_SLOTS_PER_HASH..MaxCapacity) \cup {SearchCapacity}
TableHashes == Hashes \cup PosHashes
SlotIdxTable ==
    [n \in Capacities |-> [h \in TableHashes |-> slot_idx_loop(h, n, <<>>, 0)]]

\* HashMap::get_slot_idx_for_hash
get_slot_idx_for_hash(h, n) ==
    IF n \in Capacities /\ h \in TableHashes THEN SlotIdxTable[n][h]
    ELSE slot_idx_loop(h, n, <<>>, 0)

\* enum HashEntryKind and enum BoardScoreType, as HashEntryInfo packs them
KindUnused == 0
KindDeficient == 1
KindFull == 2

score_type_bits(kind) ==
    CASE kind = "Exact" -> 0
      [] kind = "LowerBound" -> 4
      [] kind = "UpperBound" -> 8

\* HashEntryInfo::new
HashEntryInfo_new(entry_kind, score_kind) == entry_kind + score_type_bits(score_kind)

\* HashEntryInfo::entry_kind
entry_kind(info) == info % 4

\* HashEntryInfo::score_type
score_type(info) ==
    CASE (info \div 4) % 4 = 0 -> "Exact"
      [] (info \div 4) % 4 = 1 -> "LowerBound"
      [] (info \div 4) % 4 = 2 -> "UpperBound"

\* HashEntryInfo::is_used
is_used(info) == entry_kind(info) # KindUnused

NoMove == 0
ZeroHash == <<0, 0, 0, 0>>

\* a slot of the zero-filled allocation
ZeroEntry ==
    [entry_type |-> 0, hash |-> ZeroHash, best_move |-> NoMove,
     score |-> 0, depth |-> 0, generation |-> 0]

\* HashEntry::with_contents
with_contents(hash, best_move, score, depth) ==
    [entry_type |-> HashEntryInfo_new(KindFull, score.kind),
     hash |-> hash, best_move |-> best_move, score |-> unwrap(score),
     depth |-> depth, generation |-> 0]

\* HashEntry::score
entry_score(e) == [kind |-> score_type(e.entry_type), s |-> e.score]

\* a lookup that compares the hash alone
get_matches_hash_only(tbl, n, hash) ==
    SelectSeq(get_slot_idx_for_hash(hash, n), LAMBDA i : tbl[i].hash = hash)

\* the candidate slots that hold `hash` and are in use, in candidate order
get_matches(tbl, n, hash) ==
    SelectSeq(get_slot_idx_for_hash(hash, n),
              LAMBDA i : tbl[i].hash = hash /\ is_used(tbl[i].entry_type))

\* HashMap::get: the first matching candidate, or None
None == [none |-> TRUE]
get(tbl, n, hash) ==
    LET m == get_matches(tbl, n, hash)
    IN  IF Len(m) = 0 THEN None ELSE tbl[m[1]]

\* HashMap::get_existing_slot: the first candidate whose hash field equals `hash`
get_existing_slot(tbl, hash, idx) ==
    SelectSeq(idx, LAMBDA i : tbl[i].hash = hash)

\* HashMap::get_empty_slot: the first candidate that is not in use
get_empty_slot(tbl, idx) ==
    SelectSeq(idx, LAMBDA i : ~is_used(tbl[i].entry_type))

\* u8::wrapping_sub
wrapping_sub_u8(a, b) == (a - b + 256) % 256

\* the candidates of least depth among `cands`: sort_unstable_by_key may put any
\* of them first
least_depth(tbl, cands) ==
    {i \in cands : \A j \in cands : tbl[i].depth <= tbl[j].depth}

SeqRange(s) == {s[i] : i \in 1..Len(s)}

\* a get_purgeable_slot that takes the first candidate whatever its depth
get_purgeable_slot_first(tbl, gen, idx) ==
    LET old == SelectSeq(idx, LAMBDA i : wrapping_sub_u8(gen, tbl[i].generation) >= 2)
        prev == SelectSeq(idx, LAMBDA i : wrapping_sub_u8(gen, tbl[i].generation) >= 1)
    IN  IF Len(old) > 0 THEN {old[1]}
        ELSE IF Len(prev) > 0 THEN {prev[1]}
        ELSE {idx[1]}

\* HashMap::get_purgeable_slot: the set of slots it may return
get_purgeable_slot(tbl, gen, idx) ==
    LET old == SelectSeq(idx, LAMBDA i : wrapping_sub_u8(gen, tbl[i].generation) >= 2)
        prev == SelectSeq(idx, LAMBDA i : wrapping_sub_u8(gen, tbl[i].generation) >= 1)
    IN  IF Len(old) > 0 THEN {old[1]}
        ELSE IF Len(prev) > 0 THEN least_depth(tbl, SeqRange(prev))
        ELSE least_depth(tbl, SeqRange(idx))

\* a get_purgeable_slot that increments count whichever entry it purges
purge_counts_always(tbl, gen, idx) == idx # <<>>

\* whether get_purgeable_slot increments count on this table
purge_counts(tbl, gen, idx) ==
    \E i \in SeqRange(idx) : wrapping_sub_u8(gen, tbl[i].generation) >= 1

\* a get_mut_or_new_slot that looks for an empty slot before an existing one
get_mut_or_new_slot_empty_first(tbl, gen, cnt, n, hash) ==
    LET idx == get_slot_idx_for_hash(hash, n)
        existing == get_existing_slot(tbl, hash, idx)
        empty == get_empty_slot(tbl, idx)
    IN  IF Len(empty) > 0 THEN [slots |-> {empty[1]}, count |-> cnt + 1]
        ELSE IF Len(existing) > 0 THEN [slots |-> {existing[1]}, count |-> cnt]
        ELSE [slots |-> get_purgeable_slot(tbl, gen, idx),
              count |-> IF purge_counts(tbl, gen, idx) THEN cnt + 1 ELSE cnt]

\* HashMap::get_mut_or_new_slot: the slots it may return, and the count it leaves
get_mut_or_new_slot(tbl, gen, cnt, n, hash) ==
    LET idx == get_slot_idx_for_hash(hash, n)
        existing == get_existing_slot(tbl, hash, idx)
        empty == get_empty_slot(tbl, idx)
    IN  IF Len(existing) > 0 THEN [slots |-> {existing[1]}, count |-> cnt]
        ELSE IF Len(empty) > 0 THEN [slots |-> {empty[1]}, count |-> cnt + 1]
        ELSE [slots |-> get_purgeable_slot(tbl, gen, idx),
              count |-> IF purge_counts(tbl, gen, idx) THEN cnt + 1 ELSE cnt]

\* an insert that leaves the entry's own generation in the slot
insert_at_keeps_generation(tbl, gen, hash, entry, i) ==
    [tbl EXCEPT ![i] = [entry EXCEPT !.hash = hash]]

\* HashMap::insert into slot `i`, one of those get_mut_or_new_slot may return
insert_at(tbl, gen, hash, entry, i) ==
    [tbl EXCEPT ![i] = [entry EXCEPT !.hash = hash, !.generation = gen]]

\* HashMap::insert
insert(hash, entry, contents) ==
    LET r == get_mut_or_new_slot(slots, generation, count, capacity, hash)
    IN  \E i \in r.slots :
            /\ slots' = insert_at(slots, generation, hash, entry, i)
            /\ count' = r.count
            /\ last' = [op |-> "insert", hash |-> hash, contents |-> contents,
                         slot |-> i, old |-> slots[i]]
            /\ written' = written \cup {i}
            /\ UNCHANGED <<capacity, generation>>

\* a new_generation that also resets every stored best move to the first move
new_generation_resets_moves ==
    /\ generation' = (generation + 1) % 256
    /\ count' = 0
    /\ last' = [op |-> "new_generation"]
    /\ written' = {}
    /\ slots' = [i \in DOMAIN slots |->
                    IF slots[i].best_move # NoMove
                    THEN [slots[i] EXCEPT !.best_move = 1]
                    ELSE slots[i]]
    /\ UNCHANGED capacity

\* HashMap::new_generation
new_generation ==
    /\ generation' = (generation + 1) % 256
    /\ count' = 0
    /\ last' = [op |-> "new_generation"]
    /\ written' = {}
    /\ UNCHANGED <<slots, capacity>>

\* ---------------------------------- moveorder.rs, evaluation.rs, the chess crate
\* Board::make_move_new: a move is its index in the position's legal moves
make_move_new(p, m) == game[p].moves[m]

\* MoveGen::new_legal
new_legal(p) == [m \in 1..Len(game[p].moves) |-> m]

\* MoveGenerator: best_move first if there is one, then the legal moves other
\* than best_move
MoveGenerator(p, best_move) ==
    IF best_move # NoMove
    THEN <<best_move>> \o SelectSeq(new_legal(p), LAMBDA m : m # best_move)
    ELSE new_legal(p)

\* evaluation::evaluate_piece_values: white material minus black material
evaluate_piece_values(p) == game[p].balance

\* ------------------------------------------------------------ search.rs
\* Searcher::static_evaluation
static_evaluation(p) == evaluate_piece_values(p)

\* a leaf evaluation that does not look for legal moves
leaf_evaluation_material_only(p) == static_evaluation(p)

\* Searcher::leaf_evaluation
leaf_evaluation(p) ==
    IF Len(new_legal(p)) > 0 THEN static_evaluation(p)
    ELSE IF game[p].check THEN MATED
    ELSE EVEN

\* the readings starttime.elapsed() may give
ClockReadings == 0..1

\* Searcher::should_stop_search
should_stop_search(elapsed) ==
    stop_now \/ (movetime # 0 /\ elapsed >= movetime)

\* one call of alphabeta_search in progress: its arguments, its locals, and
\* where it is ("entry": at its start; "wait": in the move loop, the recursive
\* call for Head(moves) made; "store": past the move loop)
Frame(depth, pos, alpha, beta) ==
    [depth |-> depth, pos |-> pos, alpha |-> alpha, beta |-> beta,
     alpha0 |-> alpha, pc |-> "entry", moves |-> <<>>,
     best_score |-> UpperBound(NO_SCORE), best_move |-> NoMove,
     any_moves |-> FALSE, deficient_search |-> FALSE]

Top == stack[Len(stack)]

\* a recursive call whose window is negated but not swapped
child_frame_unswapped(f, next_move) ==
    Frame(f.depth - 1, make_move_new(f.pos, next_move),
          neg(decrement_mate_plies(f.alpha)), neg(decrement_mate_plies(f.beta)))

\* the recursive call for next_move
child_frame(f, next_move) ==
    Frame(f.depth - 1, make_move_new(f.pos, next_move),
          neg(decrement_mate_plies(f.beta)), neg(decrement_mate_plies(f.alpha)))

\* the hash probe at a node without the stop branches in its bound arms
hash_probe_window_only(e, is_stopping, depth, alpha, beta) ==
    IF e = None THEN None
    ELSE IF is_stopping \/ e.depth >= depth
    THEN CASE is_exact(entry_score(e)) -> entry_score(e)
           [] is_lowerbound(entry_score(e)) /\ e.score >= beta -> entry_score(e)
           [] is_upperbound(entry_score(e)) /\ e.score <= alpha -> entry_score(e)
           [] OTHER -> None
    ELSE None

\* alphabeta_search, the hash probe: the score returned from the table entry `e`,
\* or None to go on
hash_probe(e, is_stopping, depth, alpha, beta) ==
    IF e = None THEN None
    ELSE IF is_stopping \/ e.depth >= depth
    THEN CASE is_exact(entry_score(e)) -> entry_score(e)
           [] is_lowerbound(entry_score(e)) /\ (is_stopping \/ e.score >= beta) ->
                entry_score(e)
           [] is_upperbound(entry_score(e)) /\ (is_stopping \/ e.score <= alpha) ->
                entry_score(e)
           [] OTHER -> None
    ELSE None

\* alphabeta_search returns `value` from the call `f`: the caller goes on, and
\* when the caller is search() it prints the info line and ends the iteration
Return(f, value, is_stopping, via) ==
    /\ ret' = [value |-> value, depth |-> f.depth, pos |-> f.pos,
               alpha |-> f.alpha0, beta |-> f.beta, is_stopping |-> is_stopping,
               via |-> via, iter |-> iter]
    /\ stack' = SubSeq(stack, 1, Len(stack) - 1)
    /\ IF Len(stack) = 1
       THEN /\ infos' = Append(infos, iter)
            /\ iter' = iter + 1
            /\ wpc' = "loop_stop"
       ELSE UNCHANGED <<infos, iter, wpc>>

\* the head of the move loop in the call `g`: the next move is searched, or the
\* loop is over
NextMove(g) ==
    /\ IF g.moves # <<>>
       THEN stack' = Append([stack EXCEPT ![Len(stack)] =
                                [g EXCEPT !.pc = "wait", !.any_moves = TRUE]],
                            child_frame(g, Head(g.moves)))
       ELSE stack' = [stack EXCEPT ![Len(stack)] = [g EXCEPT !.pc = "store"]]
    /\ UNCHANGED <<ret, infos, iter, wpc>>

\* alphabeta_search from its start to its first recursive call or its return
AlphabetaEntry ==
    /\ wpc = "alphabeta"
    /\ Top.pc = "entry"
    /\ \E elapsed \in ClockReadings :
         LET f == Top
             is_stopping == should_stop_search(elapsed)
             e == get(slots, capacity, PosHash(f.pos))
             probe == hash_probe(e, is_stopping, f.depth, f.alpha, f.beta)
             previous_best_move == IF e = None THEN NoMove ELSE e.best_move
         IN  IF f.alpha >= BEST_SCORE
             THEN Return(f, UpperBound(MATE), FALSE, "overdetermined")
             ELSE IF f.beta = WORST_SCORE
             THEN Return(f, LowerBound(MATED), FALSE, "overdetermined")
             ELSE IF probe # None
             THEN Return(f, probe, is_stopping, "table")
             ELSE IF f.depth > 0 /\ ~is_stopping
             THEN NextMove([f EXCEPT !.moves = MoveGenerator(f.pos, previous_best_move)])
             ELSE IF f.depth = 0 /\ ~is_stopping
             THEN Return(f, Exact(leaf_evaluation(f.pos)), FALSE, "leaf")
             ELSE Return(f, LowerBound(WORST_SCORE), TRUE, "stopped")
    /\ UNCHANGED <<hashVars, game, clientVars, stopVars, uciVars>>
    /\ UNCHANGED <<root, searches, bestmoves, cur, depth_read>>

\* the body of the move loop after the recursive call has returned
AlphabetaAfterChild ==
    /\ wpc = "alphabeta"
    /\ Top.pc = "wait"
    /\ LET f == Top
           next_move == Head(f.moves)
           search_score == bounded_neg(bounded_increment_mate_plies(ret.value))
           deficient ==
               \/ unwrap(search_score) = NO_SCORE
               \/ is_lowerbound(search_score) /\ unwrap(search_score) < f.beta
               \/ is_upperbound(search_score) /\ unwrap(search_score) > f.alpha
           better == bounded_gt(search_score, f.best_score)
           best_score == IF better THEN search_score ELSE f.best_score
           raises == /\ better
                     /\ ~is_upperbound(search_score)
                     /\ unwrap(search_score) > f.alpha
           cutoff == ~is_upperbound(best_score) /\ unwrap(best_score) >= f.beta
       IN  NextMove([f EXCEPT
               !.deficient_search = @ \/ deficient,
               !.best_score = IF cutoff THEN LowerBound(unwrap(best_score))
                              ELSE best_score,
               !.best_move = IF better THEN next_move ELSE @,
               !.alpha = IF raises THEN unwrap(search_score) ELSE @,
               !.moves = IF cutoff THEN <<>> ELSE Tail(@)])
    /\ UNCHANGED <<hashVars, game, clientVars, stopVars, uciVars>>
    /\ UNCHANGED <<root, searches, bestmoves, cur, depth_read>>

\* a store that lowers the depth only when the search is stopping
AlphabetaStore_stop_only ==
    /\ wpc = "alphabeta"
    /\ Top.pc = "store"
    /\ \E elapsed \in ClockReadings :
         LET f == Top
             best_score == IF f.any_moves THEN f.best_score
                           ELSE IF game[f.pos].check THEN Exact(MATED)
                           ELSE Exact(EVEN)
             depth == IF f.any_moves THEN f.depth ELSE 255
             store_depth ==
                 IF should_stop_search(elapsed) THEN depth - 1
                 ELSE IF is_exact(best_score) /\ is_mate_score(unwrap(best_score))
                 THEN 255
                 ELSE depth
             hash_entry == with_contents(PosHash(f.pos), f.best_move, best_score,
                                         store_depth)
         IN  /\ IF unwrap(best_score) # NO_SCORE
                THEN insert(PosHash(f.pos), hash_entry,
                            <<f.best_move, best_score, store_depth>>)
                ELSE UNCHANGED hashVars
             /\ Return(f, best_score, FALSE, "searched")
    /\ UNCHANGED <<game, clientVars, stopVars, uciVars>>
    /\ UNCHANGED <<root, searches, bestmoves, cur, depth_read>>

\* alphabeta_search from the end of the move loop to its return
AlphabetaStore ==
    /\ wpc = "alphabeta"
    /\ Top.pc = "store"
    /\ \E elapsed \in ClockReadings :
         LET f == Top
             best_score == IF f.any_moves THEN f.best_score
                           ELSE IF game[f.pos].check THEN Exact(MATED)
                           ELSE Exact(EVEN)
             depth == IF f.any_moves THEN f.depth ELSE 255
             store_depth ==
                 IF f.deficient_search \/ should_stop_search(elapsed) THEN depth - 1
                 ELSE IF is_exact(best_score) /\ is_mate_score(unwrap(best_score))
                 THEN 255
                 ELSE depth
             hash_entry == with_contents(PosHash(f.pos), f.best_move, best_score,
                                         store_depth)
         IN  /\ IF unwrap(best_score) # NO_SCORE
                THEN insert(PosHash(f.pos), hash_entry,
                            <<f.best_move, best_score, store_depth>>)
                ELSE UNCHANGED hashVars
             /\ Return(f, best_score, FALSE, "searched")
    /\ UNCHANGED <<game, clientVars, stopVars, uciVars>>
    /\ UNCHANGED <<root, searches, bestmoves, cur, depth_read>>

\* search() after its loop: the root entry's best move is printed, or an expect
\* fails and the thread panics
search_end ==
    LET e == get(slots, capacity, PosHash(root))
    IN  IF e = None \/ e.best_move = NoMove
        THEN wpc' = "panicked" /\ UNCHANGED bestmoves
        ELSE wpc' = "recv" /\ bestmoves' = Append(bestmoves, e.best_move)

\* search(), the head of the loop and its first break
SearchLoopStop ==
    /\ wpc = "loop_stop"
    /\ \E elapsed \in ClockReadings :
         IF iter > 255 \/ should_stop_search(elapsed)
         THEN search_end
         ELSE wpc' = "loop_depth" /\ UNCHANGED bestmoves
    /\ UNCHANGED <<hashVars, game, clientVars, stopVars, uciVars>>
    /\ UNCHANGED <<root, iter, stack, ret, infos, searches, cur, depth_read>>

\* a second break that lets one iteration past the depth cap start
SearchLoopDepth_past_cap ==
    /\ wpc = "loop_depth"
    /\ depth_read' = depth_cap
    /\ IF iter > depth_cap + 1
       THEN search_end /\ UNCHANGED stack
       ELSE /\ stack' = <<Frame(iter, root, WORST_SCORE, BEST_SCORE)>>
            /\ wpc' = "alphabeta"
            /\ UNCHANGED bestmoves
    /\ UNCHANGED <<hashVars, game, clientVars, stopVars, uciVars>>
    /\ UNCHANGED <<root, iter, ret, infos, searches, cur>>

\* search(), the second break and the call of alphabeta_search on the root
SearchLoopDepth ==
    /\ wpc = "loop_depth"
    /\ depth_read' = depth_cap
    /\ IF iter > depth_cap
       THEN search_end /\ UNCHANGED stack
       ELSE /\ stack' = <<Frame(iter, root, WORST_SCORE, BEST_SCORE)>>
            /\ wpc' = "alphabeta"
            /\ UNCHANGED bestmoves
    /\ UNCHANGED <<hashVars, game, clientVars, stopVars, uciVars>>
    /\ UNCHANGED <<root, iter, ret, infos, searches, cur>>

\* ------------------------------------------------------ searchinterface.rs
\* no alphabeta_search call has returned yet
NoReturn ==
    [value |-> LowerBound(WORST_SCORE), depth |-> 0, pos |-> 0, alpha |-> 0,
     beta |-> 0, is_stopping |-> FALSE, via |-> "none", iter |-> 0]

\* no go() call is in progress
NoArgs == [position |-> 0, depth |-> 0, movetime |-> 0]

\* SearchInterface::new, StopConditions::new and the search thread up to its
\* first recv(), on the game `g` with the commands `p` to come
SearchInterfaceNew(g, p) ==
    /\ game = g
    /\ plan = p
    /\ stop_now = FALSE
    /\ is_running = FALSE
    /\ depth_cap = 255
    /\ movetime = 0
    /\ channel = <<>>
    /\ upc = "idle"
    /\ uarg = NoArgs
    /\ wpc = "recv"
    /\ root = 0
    /\ iter = 0
    /\ stack = <<>>
    /\ ret = NoReturn
    /\ infos = <<>>
    /\ searches = 0
    /\ bestmoves = <<>>
    /\ cur = 0
    /\ depth_read = 0

\* ---------------------------------------------------------------- uci.rs
\* Board::default(): the starting position
Board_default == 1

\* nothing handled yet
NoReply == [command |-> "", error |-> "", made |-> 0]

\* UciClient::new
UciClientNew(g, p) ==
    /\ uci_position = Board_default
    /\ reply = NoReply
    /\ SearchInterfaceNew(g, p)

\* the receiver is gone once the search thread has ended
receiver_dropped == wpc \in {"exited", "panicked"}

\* SearchInterface::go, the is_running test and the wait loop
GoIsRunning ==
    /\ upc \in {"idle", "go_spin"}
    /\ IF upc = "idle"
       THEN /\ plan.go > 0
            /\ plan' = [plan EXCEPT !.go = @ - 1]
            /\ \E position \in plan.roots, depth \in plan.depths,
                    time \in plan.movetimes :
                 uarg' = [position |-> position, depth |-> depth, movetime |-> time]
       ELSE UNCHANGED <<plan, uarg>>
    /\ stop_now' = IF upc = "idle" /\ is_running THEN TRUE ELSE stop_now
    /\ upc' = IF is_running THEN "go_spin" ELSE "go_clear"
    /\ UNCHANGED <<hashVars, game, clientVars, is_running, depth_cap, movetime, channel, workerVars>>

\* SearchInterface::go, set_stop_now(false)
GoClear ==
    /\ upc = "go_clear"
    /\ stop_now' = FALSE
    /\ upc' = "go_assign"
    /\ UNCHANGED <<hashVars, game, clientVars, is_running, depth_cap, movetime>>
    /\ UNCHANGED <<channel, uarg, plan, workerVars>>

\* StopConditions::assign
GoAssign ==
    /\ upc = "go_assign"
    /\ depth_cap' = uarg.depth
    /\ upc' = "go_send"
    /\ UNCHANGED <<hashVars, game, clientVars, stop_now, is_running, movetime>>
    /\ UNCHANGED <<channel, uarg, plan, workerVars>>

\* SearchInterface::go, channel.send(Go(position)).expect(..)
GoSend ==
    /\ upc = "go_send"
    /\ IF receiver_dropped
       THEN upc' = "go_panicked" /\ UNCHANGED channel
       ELSE /\ channel' = Append(channel, [cmd |-> "Go", position |-> uarg.position,
                                           depth |-> uarg.depth])
            /\ upc' = "idle"
    /\ UNCHANGED <<hashVars, game, clientVars, stopVars, uarg, plan, workerVars>>

\* SearchInterface::stop
Stop ==
    /\ upc = "idle"
    /\ plan.stop > 0
    /\ plan' = [plan EXCEPT !.stop = @ - 1]
    /\ stop_now' = TRUE
    /\ UNCHANGED <<hashVars, game, clientVars, is_running, depth_cap, movetime>>
    /\ UNCHANGED <<channel, upc, uarg, workerVars>>

\* Drop for SearchInterface, set_stop_now(true)
DropSetStop ==
    /\ upc = "idle"
    /\ plan.quit
    /\ plan' = [plan EXCEPT !.quit = FALSE]
    /\ stop_now' = TRUE
    /\ upc' = "drop_send"
    /\ UNCHANGED <<hashVars, game, clientVars, is_running, depth_cap, movetime>>
    /\ UNCHANGED <<channel, uarg, workerVars>>

\* Drop for SearchInterface, channel.send(Exit).expect(..)
DropSend ==
    /\ upc = "drop_send"
    /\ IF receiver_dropped
       THEN upc' = "drop_panicked" /\ UNCHANGED channel
       ELSE channel' = Append(channel, [cmd |-> "Exit"]) /\ upc' = "drop_join"
    /\ UNCHANGED <<hashVars, game, clientVars, stopVars, uarg, plan, workerVars>>

\* Drop for SearchInterface, join_handle.join().expect(..)
DropJoin ==
    /\ upc = "drop_join"
    /\ receiver_dropped
    /\ upc' = IF wpc = "exited" THEN "dropped" ELSE "drop_panicked"
    /\ UNCHANGED <<hashVars, game, clientVars, stopVars, channel, uarg, plan, workerVars>>

\* search_thread_mainloop, recv() of a Go command and search() up to its loop
WorkerRecvGo ==
    /\ wpc = "recv"
    /\ channel # <<>>
    /\ Head(channel).cmd = "Go"
    /\ channel' = Tail(channel)
    /\ root' = Head(channel).position
    /\ cur' = Head(channel).depth
    /\ depth_read' = Head(channel).depth
    /\ new_generation
    /\ iter' = 1
    /\ infos' = <<>>
    /\ searches' = searches + 1
    /\ wpc' = "loop_stop"
    /\ UNCHANGED <<game, clientVars, stopVars, upc, uarg, plan, stack, ret, bestmoves>>

\* search_thread_mainloop, recv() of the Exit command
WorkerRecvExit ==
    /\ wpc = "recv"
    /\ channel # <<>>
    /\ Head(channel).cmd = "Exit"
    /\ channel' = Tail(channel)
    /\ wpc' = "exited"
    /\ UNCHANGED <<hashVars, game, clientVars, stopVars, upc, uarg, plan>>
    /\ UNCHANGED <<root, iter, stack, ret, infos, searches, bestmoves, cur, depth_read>>

Worker ==
    \/ WorkerRecvGo
    \/ WorkerRecvExit
    \/ SearchLoopStop
    \/ SearchLoopDepth
    \/ AlphabetaEntry
    \/ AlphabetaAfterChild
    \/ AlphabetaStore

\* ------------------------------------------------------------ the games
\* the material balances drawn for the positions
Balances == {-100, 0, 100}

\* the positions whose balance is drawn
Weighed == {6, 8, 9, 10}

\* the games: a position with no legal move is checkmate or stalemate
Games ==
    {[p \in Positions |->
        [moves |-> Moves[p],
         check |-> IF p = 7 THEN c ELSE FALSE,
         balance |-> IF p \in Weighed THEN b[p] ELSE 0]] :
      c \in BOOLEAN, b \in [Weighed -> Balances]}

\* the game the search thread is run on next to its caller
TheGame ==
    [p \in Positions |->
        [moves |-> Moves[p], check |-> FALSE,
         balance |-> IF p \in {4, 8} THEN -100 ELSE 0]]

\* bounds: the go and stop commands given, and the depths asked for
MaxGo == 2
MaxStop == 1
MaxDepth == 2
SeqDepth == 4

\* ------------------------------------------------ the engine, its caller
Init ==
    /\ capacity = SearchCapacity
    /\ slots = [i \in 0..(capacity - 1) |-> ZeroEntry]
    /\ count = 0
    /\ generation = 0
    /\ last = [op |-> "new"]
    /\ written = {}
    /\ UciClientNew(TheGame, [go |-> MaxGo, stop |-> MaxStop, quit |-> TRUE,
                                    roots |-> {5}, depths |-> 1..MaxDepth,
                                    movetimes |-> {0}])

Next ==
    \/ GoIsRunning
    \/ GoClear
    \/ GoAssign
    \/ GoSend
    \/ Stop
    \/ DropSetStop
    \/ DropSend
    \/ DropJoin
    \/ Worker

Spec == Init /\ [][Next]_vars

\* ------------------------------------- one search that is never stopped
InitSeq ==
    /\ capacity = SearchCapacity
    /\ slots = [i \in 0..(capacity - 1) |-> ZeroEntry]
    /\ count = 0
    /\ generation = 0
    /\ last = [op |-> "new"]
    /\ written = {}
    /\ \E g \in Games :
         UciClientNew(g, [go |-> 1, stop |-> 0, quit |-> FALSE,
                                roots |-> {1}, depths |-> {SeqDepth},
                                    movetimes |-> {0}])

NextSeq ==
    \/ GoIsRunning
    \/ GoClear
    \/ GoAssign
    \/ GoSend
    \/ WorkerRecvGo
    \/ SearchLoopStop
    \/ SearchLoopDepth
    \/ AlphabetaEntry
    \/ AlphabetaAfterChild
    \/ AlphabetaStore

SpecSeq == InitSeq /\ [][NextSeq]_vars

\* ------------------------------------------------- the table on its own
\* the entries inserted, as (best_move, score, depth)
EntryInputs ==
    << <<NoMove, Exact(0), 0>>, <<1, LowerBound(120), 0>>,
       <<2, UpperBound(MATED), 255>>, <<1, Exact(MATE - 1), 3>> >>

\* the entry a hash is inserted with: it differs from hash to hash and from one
\* generation to the next
EntryInputFor(h, gen) ==
    LET k == CHOOSE k \in 1..Len(HashSeq) : HashSeq[k] = h
    IN  EntryInputs[((k + gen) % Len(EntryInputs)) + 1]

\* HashMap::new
HashInit ==
    /\ capacity \in NUM_SLOTS_PER_HASH..MaxCapacity
    /\ slots = [i \in 0..(capacity - 1) |-> ZeroEntry]
    /\ count = 0
    /\ generation = 0
    /\ last = [op |-> "new"]
    /\ written = {}
    /\ UciClientNew(TheGame, [go |-> 0, stop |-> 0, quit |-> FALSE,
                                    roots |-> {}, depths |-> {},
                                    movetimes |-> {0}])

HashInsert ==
    /\ \E h \in Hashes :
         LET c == EntryInputFor(h, generation)
         IN  insert(h, with_contents(h, c[1], c[2], c[3]), c)
    /\ UNCHANGED searchVars

HashNewGeneration ==
    /\ generation < MaxGeneration
    /\ new_generation
    /\ UNCHANGED searchVars

HashNext == HashInsert \/ HashNewGeneration

SpecHash == HashInit /\ [][HashNext]_vars

\* ------------------------------------------------------- table properties
used_slots == {i \in DOMAIN slots : is_used(slots[i].entry_type)}

\* C9: after any sequence of insert and new_generation, at most one slot in use
\* stores any given hash, so get never finds two matching candidates.
C9_OneSlotPerHash ==
    /\ \A i, j \in used_slots : slots[i].hash = slots[j].hash => i = j
    /\ \A h \in Hashes : Len(get_matches(slots, capacity, h)) <= 1

\* a hash is inserted again into a full table that already holds it, after a
\* generation rollover
C9_Witness ==
    /\ last.op = "insert"
    /\ generation >= 1
    /\ used_slots = DOMAIN slots
    /\ \E i \in used_slots : slots[i].hash = last.hash /\ slots[i].generation = generation
    /\ \E i \in used_slots : slots[i].generation # generation

\* C10: right after insert(h, e), get(h) returns an entry with hash h, the best
\* move, bounded score and depth of e, and the table's current generation.
C10_InsertGetRoundTrip ==
    last.op = "insert" =>
        LET g == get(slots, capacity, last.hash)
        IN  /\ g # None
            /\ g.hash = last.hash
            /\ g.best_move = last.contents[1]
            /\ entry_score(g) = last.contents[2]
            /\ g.depth = last.contents[3]
            /\ g.generation = generation

\* an upper-bound mate score is inserted over a full table in a later generation
C10_Witness ==
    /\ last.op = "insert"
    /\ generation >= 1
    /\ used_slots = DOMAIN slots
    /\ last.contents[2] = UpperBound(MATED)
    /\ get(slots, capacity, last.hash).depth = 255

\* ------------------------------------------------------ worker properties
\* the search thread is inside search()
InSearch == wpc \in {"loop_stop", "loop_depth", "alphabeta"}

\* a Go command has been sent and not yet received
GoQueued == \E i \in 1..Len(channel) : channel[i].cmd = "Go"

\* C1: a go() call that finds an earlier search still running, or not yet
\* started, clears stop_now, assigns the depth cap and sends its command only
\* once that search has ended.
C1_GoWaitsForSearch ==
    upc \in {"go_assign", "go_send"} => ~InSearch /\ ~GoQueued

\* C2: every search on a root with a legal move prints one bestmove line and
\* goes back to waiting for commands; neither expect in search() fails.
C2_OneBestmovePerGo ==
    /\ wpc # "panicked"
    /\ wpc \in {"recv", "exited"} => Len(bestmoves) = searches

\* C3: is_running is true while the search thread is inside search() and false
\* while it waits for a command.
C3_IsRunningTracksSearch ==
    /\ InSearch => is_running
    /\ wpc = "recv" => ~is_running

\* C4: the depth cap a search reads at an iteration boundary is the one given
\* by the go() call that sent its Go command.
C4_DepthCapOfOwnGo == depth_read = cur

\* C5: while stop_now is set, an alphabeta_search call that starts returns
\* without searching a move, and the loop of search() at its head starts no
\* iteration and search() returns to the main loop.
C5_StopHonoured ==
    [][stop_now /\ stop_now' =>
          /\ (wpc = "alphabeta" /\ Top.pc = "entry" /\ stack' # stack) =>
                Len(stack') < Len(stack)
          /\ (wpc = "loop_stop" /\ wpc' # wpc) => wpc' = "recv"]_vars

\* an alphabeta_search call starts while the search is being stopped, its
\* window not overdetermined
StoppingEntry ==
    /\ wpc = "alphabeta"
    /\ Top.pc = "entry"
    /\ \A elapsed \in ClockReadings : should_stop_search(elapsed)
    /\ Top.alpha < BEST_SCORE
    /\ Top.beta # WORST_SCORE

\* C6: an alphabeta_search call that finds the search stopping returns the
\* score of the position's table entry, whatever its depth and the window, or
\* LowerBound(WORST_SCORE) if there is none, without a leaf evaluation and
\* without a change to the table.
C6_StoppingEntryReturnsTable ==
    [][StoppingEntry /\ stack' # stack =>
          LET e == get(slots, capacity, PosHash(Top.pos))
          IN  /\ stack' = SubSeq(stack, 1, Len(stack) - 1)
              /\ ret'.pos = Top.pos
              /\ ret'.value = IF e # None THEN entry_score(e)
                              ELSE LowerBound(WORST_SCORE)
              /\ ret'.via = IF e # None THEN "table" ELSE "stopped"
              /\ slots' = slots
              /\ count' = count]_vars

\* a stopping call has returned a bound from an entry stored at a lower depth
\* than asked for, though the bound lies inside the window
C6_Witness ==
    /\ ret.via = "table"
    /\ ret.is_stopping
    /\ LET e == get(slots, capacity, PosHash(ret.pos))
       IN  /\ e # None
           /\ entry_score(e) = ret.value
           /\ e.depth < ret.depth
    /\ \/ is_lowerbound(ret.value) /\ unwrap(ret.value) < ret.beta
       \/ is_upperbound(ret.value) /\ unwrap(ret.value) > ret.alpha

\* C7: dropping the SearchInterface in any state sets stop_now, sends Exit, and
\* joins the search thread, which has left its main loop.
C7_ShutdownJoins ==
    /\ upc # "drop_panicked"
    /\ upc \in {"drop_send", "drop_join", "dropped"} => stop_now
    /\ upc = "dropped" => wpc = "exited"

\* ------------------------------------------------------ search properties
\* the greatest element of a set of scores
MaxScore(S) == CHOOSE s \in S : \A t \in S : t <= s

\* no line of play in Moves is longer
Height == Len(Moves)

\* the negamax value of position p searched `depth` plies deep with mate-distance
\* scoring: a position without legal moves is MATED or EVEN, a position at
\* depth 0 has its static evaluation, and any other has the best of its moves'
\* values, each the negation of the reply's value one ply further from mate
RECURSIVE Negamax(_, _)
Negamax(p, depth) ==
    IF Len(new_legal(p)) = 0 THEN (IF game[p].check THEN MATED ELSE EVEN)
    ELSE IF depth = 0 THEN static_evaluation(p)
    ELSE MaxScore({neg(increment_mate_plies(Negamax(make_move_new(p, m), depth - 1))) :
                      m \in 1..Len(new_legal(p))})

\* a bounded score agrees with the value v
Sound(b, v) ==
    CASE is_exact(b) -> unwrap(b) = v
      [] is_lowerbound(b) -> v >= unwrap(b)
      [] is_upperbound(b) -> v <= unwrap(b)

\* a bound lies outside the window it was searched with
OutsideWindow(b, alpha, beta) ==
    /\ is_lowerbound(b) => unwrap(b) >= beta
    /\ is_upperbound(b) => unwrap(b) <= alpha

\* the position a table slot is about
PositionOf(e) == CHOOSE p \in Positions : PosHash(p) = e.hash

\* C8: in a search that is never stopped and starts from an empty table, every
\* alphabeta_search result is sound for the depth-limited negamax value of its
\* position (Exact is the value, LowerBound is at most the value and at least
\* beta, UpperBound is at least the value and at most alpha), and so is every
\* entry in the table at its stored depth.
C8_AlphabetaSound ==
    /\ ret.via # "none" =>
          /\ Sound(ret.value, Negamax(ret.pos, ret.depth))
          /\ OutsideWindow(ret.value, ret.alpha, ret.beta)
    /\ \A i \in used_slots :
          LET e == slots[i]
              d == IF e.depth > Height THEN Height ELSE e.depth
          IN  Sound(entry_score(e), Negamax(PositionOf(e), d))

\* ------------------------------------------------- candidate slots alone
\* bound: the capacities get_slot_idx_for_hash is run on
MaxSlotCapacity == 12

\* the hashes it is run on: every limb zero, one or all ones
SlotLimbs == {0, 1, 65535}
SlotHashes == {<<a, b, c, d>> : a \in SlotLimbs, b \in SlotLimbs, c \in SlotLimbs, d \in SlotLimbs}

\* HashMap::new with a capacity of NUM_SLOTS_PER_HASH or more
InitSlotIdx ==
    /\ capacity \in NUM_SLOTS_PER_HASH..MaxSlotCapacity
    /\ slots = [i \in 0..(capacity - 1) |-> ZeroEntry]
    /\ count = 0
    /\ generation = 0
    /\ last = [op |-> "new"]
    /\ written = {}
    /\ UciClientNew(TheGame, [go |-> 0, stop |-> 0, quit |-> FALSE,
                                    roots |-> {}, depths |-> {},
                                    movetimes |-> {0}])

\* a call of get_slot_idx_for_hash, which leaves the table as it is
SlotIdx ==
    /\ last.op = "new"
    /\ \E h \in SlotHashes :
         last' = [op |-> "get_slot_idx_for_hash", hash |-> h,
                  result |-> get_slot_idx_for_hash(h, capacity)]
    /\ UNCHANGED <<slots, count, capacity, generation, written, searchVars>>

SpecSlotIdx == InitSlotIdx /\ [][SlotIdx]_vars

\* the hash after r additions of 0x1000100010005
RECURSIVE add_primes(_, _)
add_primes(h, r) == IF r = 0 THEN h ELSE wrapping_add_prime(add_primes(h, r - 1))

\* the slot the loop of get_slot_idx_for_hash looks at in its j-th turn: 64
\* rotations by 11 bits bring the hash back, and then the constant is added
turn_slot(h, n, j) == next_slot(add_primes(h, j \div 64), n, j % 64)

\* the turns the loop may take before it has four slots, in the model
MaxTurns == 256

\* the slots of the turns that bring a slot not seen in an earlier turn, in order
fresh_turn_slots(h, n) ==
    LET S == [j \in 0..(MaxTurns - 1) |-> turn_slot(h, n, j)]
        F == {j \in DOMAIN S : \A i \in 0..(j - 1) : S[i] # S[j]}
        RECURSIVE take(_, _)
        take(from, k) ==
            IF k = 0 \/ \A j \in F : j < from THEN <<>>
            ELSE LET j == CHOOSE j \in F : j >= from /\ \A i \in F : i >= from => j <= i
                 IN  <<S[j]>> \o take(j + 1, k - 1)
    IN  take(0, NUM_SLOTS_PER_HASH)

\* the result of the last get_slot_idx_for_hash call is four distinct slots of
\* the table, the first of them hash % capacity
FourDistinctSlots ==
    /\ Len(last.result) = NUM_SLOTS_PER_HASH
    /\ \A i, j \in 1..Len(last.result) : last.result[i] = last.result[j] => i = j
    /\ \A i \in 1..Len(last.result) : last.result[i] \in 0..(capacity - 1)
    /\ last.result[1] = hash_mod(last.hash, capacity)

\* C11 as stated: for every hash, 0 and all ones included, and every capacity
\* of 4 or more, get_slot_idx_for_hash returns four distinct slots, the first
\* hash % capacity, each of them (rotation of the hash by 11 bits some number
\* of times) % capacity.
C11_SlotsFromRotations ==
    last.op = "get_slot_idx_for_hash" =>
        /\ FourDistinctSlots
        /\ \A i \in 1..Len(last.result) :
              \E k \in 0..63 : last.result[i] = next_slot(last.hash, capacity, k)

\* C11, amended: get_slot_idx_for_hash returns four distinct slots, the first
\* hash % capacity; they are the first four different values of x % capacity
\* where x starts as the hash, is rotated left by 11 bits every turn, and has
\* 0x1000100010005 added after every 64 turns.
C11_FourDistinctSlots ==
    last.op = "get_slot_idx_for_hash" =>
        /\ FourDistinctSlots
        /\ last.result = fresh_turn_slots(last.hash, capacity)

\* the call is made on the hash 0, whose rotations all give slot 0, with more
\* than four slots
C11_Witness ==
    /\ last.op = "get_slot_idx_for_hash"
    /\ last.hash = ZeroHash
    /\ capacity > NUM_SLOTS_PER_HASH
    /\ last.result[1] = 0

\* --------------------------------------------------- the slot insert writes
\* the table as the last insert found it: insert writes one slot only
slots_before == [slots EXCEPT ![last.slot] = last.old]

\* candidates of `hash` in `tbl` that are `behind` generations or more behind
generations_behind(tbl, gen, idx, behind) ==
    {i \in SeqRange(idx) : wrapping_sub_u8(gen, tbl[i].generation) >= behind}

\* the slots the priority of insert allows for `hash`
slot_priority(tbl, gen, n, hash) ==
    LET idx == get_slot_idx_for_hash(hash, n)
        cand == SeqRange(idx)
        holding == {i \in cand : is_used(tbl[i].entry_type) /\ tbl[i].hash = hash}
        unused == {i \in cand : entry_kind(tbl[i].entry_type) = KindUnused}
        old == generations_behind(tbl, gen, idx, 2)
        prev == generations_behind(tbl, gen, idx, 1)
    IN  IF holding # {} THEN holding
        ELSE IF unused # {} THEN unused
        ELSE IF old # {} THEN old
        ELSE IF prev # {} THEN least_depth(tbl, prev)
        ELSE least_depth(tbl, cand)

\* `i` holds an entry of the current generation for a hash other than `hash`
current_other(tbl, gen, hash, i) ==
    /\ is_used(tbl[i].entry_type)
    /\ tbl[i].generation = gen
    /\ tbl[i].hash # hash

\* C12: insert(h, e) writes the candidate slot its priority gives: one holding h,
\* else an Unused one, else one two or more generations behind, else one of
\* least depth among those one generation behind, else one of least depth among
\* all four; and it overwrites a current-generation entry of another hash only
\* when all four candidates hold such entries.
C12_InsertSlotPriority ==
    last.op = "insert" =>
        LET idx == get_slot_idx_for_hash(last.hash, capacity)
        IN  /\ last.slot \in slot_priority(slots_before, generation, capacity, last.hash)
            /\ current_other(slots_before, generation, last.hash, last.slot)
                  => \A i \in SeqRange(idx) :
                         current_other(slots_before, generation, last.hash, i)

\* an insert has overwritten a current-generation entry of another hash, of
\* lower depth than another candidate, in a table past its first generation
C12_Witness ==
    /\ last.op = "insert"
    /\ generation >= 1
    /\ current_other(slots_before, generation, last.hash, last.slot)
    /\ \E i \in SeqRange(get_slot_idx_for_hash(last.hash, capacity)) :
           slots_before[i].depth > last.old.depth

\* ------------------------------------------------------ lookups that miss
\* this step is not an insert of `h`
not_inserted(h) == ~(last'.op = "insert" /\ last'.hash = h)

\* C13: on the zero-filled table get finds no hash, hash 0 included; a hash that
\* get does not find stays not found until it is inserted; and an entry get
\* returns is never of kind Unused.
C13_ZeroFilledIsEmpty ==
    /\ \A h \in Hashes : get(slots, capacity, h) = None
    /\ [][\A h \in Hashes :
            (get(slots, capacity, h) = None /\ not_inserted(h))
                => get(slots', capacity', h) = None]_vars
    /\ [](\A h \in Hashes :
            LET g == get(slots, capacity, h)
            IN  g # None => entry_kind(g.entry_type) # KindUnused)

\* other hashes have been inserted over two generations, hash 0 has not: one of
\* its candidates is still zero-filled, and get(0) finds nothing
C13_Witness ==
    /\ last.op = "insert"
    /\ generation >= 1
    /\ \A i \in used_slots : slots[i].hash # ZeroHash
    /\ \E i \in SeqRange(get_slot_idx_for_hash(ZeroHash, capacity)) : slots[i] = ZeroEntry
    /\ \E i \in SeqRange(get_slot_idx_for_hash(ZeroHash, capacity)) : is_used(slots[i].entry_type)
    /\ get(slots, capacity, ZeroHash) = None

\* ------------------------------------------------ go with a time limit
\* go is called with and without a movetime
InitGo ==
    /\ capacity = SearchCapacity
    /\ slots = [i \in 0..(capacity - 1) |-> ZeroEntry]
    /\ count = 0
    /\ generation = 0
    /\ last = [op |-> "new"]
    /\ written = {}
    /\ UciClientNew(TheGame, [go |-> 1, stop |-> 1, quit |-> TRUE,
                                    roots |-> {5}, depths |-> {1},
                                    movetimes |-> ClockReadings])

SpecGo == InitGo /\ [][Next]_vars

\* go returns: its last step, the send of Go(position)
GoReturns == upc = "go_send" /\ upc' = "idle"

\* C14: when go(position, sc) sends Go(position) and returns, stop_now is false
\* and the live block holds sc.depth and sc.movetime; and should_stop is true
\* exactly when stop_now is set or a non-zero movetime has elapsed.
C14_GoCopiesStopConditions ==
    [][GoReturns =>
          /\ stop_now = FALSE /\ stop_now' = FALSE
          /\ depth_cap = uarg.depth /\ depth_cap' = uarg.depth
          /\ movetime = uarg.movetime /\ movetime' = uarg.movetime
          /\ \A elapsed \in ClockReadings :
                 should_stop_search(elapsed)
                     <=> (stop_now \/ (movetime # 0 /\ elapsed >= movetime))]_vars

\* ------------------------------------------ the same go, twice in a row
MaxTwiceDepth == 4

\* go, and go again with the same position and depth; no stop, no drop. Position 7
\* has no legal move.
InitTwice ==
    /\ capacity = SearchCapacity
    /\ slots = [i \in 0..(capacity - 1) |-> ZeroEntry]
    /\ count = 0
    /\ generation = 0
    /\ last = [op |-> "new"]
    /\ written = {}
    /\ \E g \in Games, position \in {1, 3, 5, 7}, depth \in 1..MaxTwiceDepth :
         UciClientNew(g, [go |-> 2, stop |-> 0, quit |-> FALSE,
                                roots |-> {position}, depths |-> {depth},
                                movetimes |-> {0}])

\* the caller's go and the search thread's steps but its exit
NextTwice ==
    \/ GoIsRunning
    \/ GoClear
    \/ GoAssign
    \/ GoSend
    \/ WorkerRecvGo
    \/ SearchLoopStop
    \/ SearchLoopDepth
    \/ AlphabetaEntry
    \/ AlphabetaAfterChild
    \/ AlphabetaStore

SpecTwice == InitTwice /\ [][NextTwice]_vars

\* C15: of two go commands in a row with the same position and depth cap,
\* neither stopped, the second prints the bestmove the first printed.
C15_SameBestmoveTwice ==
    Len(bestmoves) = 2 => bestmoves[2] = bestmoves[1]

\* both searches have printed their bestmove; the second ran in a later
\* generation on the table the first left, to a depth of two or more
C15_Witness ==
    /\ Len(bestmoves) = 2
    /\ generation = 2
    /\ depth_cap >= 2
    /\ used_slots # {}
    /\ Len(game[root].moves) >= 2

\* --------------------------------------------- positions without a legal move
\* checkmate and stalemate
no_legal_moves(p) == Len(new_legal(p)) = 0

\* the score of a position without a legal move
terminal_score(p) == IF game[p].check THEN Exact(MATED) ELSE Exact(EVEN)

\* the windows a later probe is tried with
ProbeWindows == {<<WORST_SCORE, BEST_SCORE>>, <<MATED, MATE>>, <<-100, 100>>, <<0, 1>>}

\* C16: when alphabeta_search, not stopping and with a window that is not
\* overdetermined, returns from a position without a legal move, it returns
\* Exact(MATED) if the side to move is in check and Exact(EVEN) if not; after a
\* search of depth 1 or more the table holds that score with depth 255 and no
\* best move, and a probe at any depth and window returns it.
C16_TerminalScores ==
    (/\ ret # NoReturn
     /\ no_legal_moves(ret.pos)
     /\ ~ret.is_stopping
     /\ ret.via # "overdetermined") =>
        /\ ret.value = terminal_score(ret.pos)
        /\ ret.depth >= 1 =>
              LET e == get(slots, capacity, PosHash(ret.pos))
              IN  /\ e # None
                  /\ e.depth = 255
                  /\ e.best_move = NoMove
                  /\ entry_score(e) = terminal_score(ret.pos)
                  /\ \A depth \in {0, 1, 2, 254, 255}, w \in ProbeWindows :
                         hash_probe(e, FALSE, depth, w[1], w[2]) = terminal_score(ret.pos)

\* a stalemated position was scored at depth 0, then searched and stored at
\* depth 1, and now a probe at depth 2 has returned the stored score
C16_Witness ==
    /\ ret.via = "table"
    /\ no_legal_moves(ret.pos)
    /\ ~game[ret.pos].check
    /\ ret.depth = 2
    /\ ret.value = Exact(EVEN)

\* ------------------------------------------------------- forced mates
MinOf(S) == CHOOSE s \in S : \A t \in S : s <= t

\* the forced mate in position p, by the rules of the game: the side to move is
\* "mated" in 0 plies when it is in check without a legal move, gives "mate" in
\* k plies when its best move leaves the opponent mated in k - 1, and is "mated"
\* in k plies when every move lets the opponent mate, the longest in k - 1
RECURSIVE mate_plies(_)
mate_plies(p) ==
    IF Len(new_legal(p)) = 0
    THEN [side |-> IF game[p].check THEN "mated" ELSE "none", k |-> 0]
    ELSE LET replies == {mate_plies(make_move_new(p, m)) : m \in 1..Len(new_legal(p))}
         IN  IF \E r \in replies : r.side = "mated"
             THEN [side |-> "mate",
                   k |-> 1 + MinOf({r.k : r \in {q \in replies : q.side = "mated"}})]
             ELSE IF \A r \in replies : r.side = "mate"
             THEN [side |-> "mated", k |-> 1 + MaxScore({r.k : r \in replies})]
             ELSE [side |-> "none", k |-> 0]

\* alphabeta_search has returned from a call with the full window, not stopping
FullWindowReturn ==
    /\ ret.via # "none"
    /\ ~ret.is_stopping
    /\ ret.alpha = WORST_SCORE
    /\ ret.beta = BEST_SCORE

CycleMoves == << <<2>>, <<3, 4>>, <<1>>, <<>> >>

CycleGame ==
    [p \in Positions |->
        [moves |-> IF p <= Len(CycleMoves) THEN CycleMoves[p] ELSE <<>>,
         check |-> FALSE, balance |-> 0]]

\* Depth::MAX
DepthMax == 255

InitTracePv ==
    /\ capacity = SearchCapacity
    /\ slots = [i \in 0..(capacity - 1) |-> ZeroEntry]
    /\ count = 0
    /\ generation = 0
    /\ last = [op |-> "new"]
    /\ written = {}
    /\ UciClientNew(CycleGame, [go |-> 0, stop |-> 0, quit |-> FALSE,
                                      roots |-> {}, depths |-> {},
                                      movetimes |-> {0}])

\* the table is filled: an entry for a position, with one of its moves as best
\* move or with none
TracePvInsert ==
    /\ wpc = "recv"
    /\ \E p \in 1..Len(CycleMoves) : \E best_move \in 0..Len(CycleMoves[p]) :
         insert(PosHash(p), with_contents(PosHash(p), best_move, Exact(EVEN), 1),
                <<best_move, Exact(EVEN), 1>>)
    /\ UNCHANGED searchVars

\* search() calls trace_pv(&position)
TracePvCall ==
    /\ wpc = "recv"
    /\ \E position \in 1..Len(CycleMoves) :
         stack' = <<[pc |-> "trace_pv", position |-> position, nbr |-> 0]>>
    /\ wpc' = "trace_pv"
    /\ UNCHANGED <<hashVars, game, clientVars, stopVars, uciVars>>
    /\ UNCHANGED <<root, iter, ret, infos, searches, bestmoves, cur, depth_read>>

\* trace_pv, one turn of its loop: nbr counts the moves written to the result
TracePvLoop ==
    /\ wpc = "trace_pv"
    /\ LET f == Top
           hash_entry == get(slots, capacity, PosHash(f.position))
       IN  IF hash_entry = None \/ hash_entry.best_move = NoMove
           THEN wpc' = "trace_pv_return" /\ UNCHANGED stack
           ELSE IF f.nbr + 1 > DepthMax
           THEN /\ wpc' = "trace_pv_return"
                /\ stack' = <<[f EXCEPT !.nbr = f.nbr + 1]>>
           ELSE /\ wpc' = "trace_pv"
                /\ stack' = <<[f EXCEPT !.nbr = f.nbr + 1,
                                        !.position = make_move_new(f.position,
                                                                   hash_entry.best_move)]>>
    /\ UNCHANGED <<hashVars, game, clientVars, stopVars, uciVars>>
    /\ UNCHANGED <<root, iter, ret, infos, searches, bestmoves, cur, depth_read>>

NextTracePv == TracePvInsert \/ TracePvCall \/ TracePvLoop

SpecTracePv == InitTracePv /\ [][NextTracePv]_vars

\* trace_pv is running or has returned
InTracePv == wpc \in {"trace_pv", "trace_pv_return"}

\* C18: trace_pv writes at most 255 moves whatever the table holds, and returns
\* early at the first position without an entry or without a best move.
C18_PvAtMost255 ==
    InTracePv =>
        /\ Top.nbr <= 255
        /\ (wpc = "trace_pv_return" /\ Top.nbr < 255) =>
              LET e == get(slots, capacity, PosHash(Top.position))
              IN  e = None \/ e.best_move = NoMove

\* ------------------------------------------------- MoveGenerator, step by step
\* bound: the hints tried; one more than any position has legal moves
MaxHint == 3

InitMoveGen ==
    /\ capacity = SearchCapacity
    /\ slots = [i \in 0..(capacity - 1) |-> ZeroEntry]
    /\ count = 0
    /\ generation = 0
    /\ last = [op |-> "new"]
    /\ written = {}
    /\ \E g \in {TheGame, CycleGame} :
         UciClientNew(g, [go |-> 0, stop |-> 0, quit |-> FALSE,
                                roots |-> {}, depths |-> {},
                                movetimes |-> {0}])

\* MoveGenerator::new
MoveGeneratorNew ==
    /\ wpc \in {"recv", "move_gen_end"}
    /\ \E position \in Positions, best_move \in 0..MaxHint :
         stack' = <<[pc |-> "move_gen", pos |-> position,
                     inner |-> new_legal(position), best_move |-> best_move,
                     generator_state |-> IF best_move # NoMove THEN "BestMove"
                                         ELSE "Rest",
                     yielded |-> <<>>]>>
    /\ wpc' = "move_gen"
    /\ UNCHANGED <<hashVars, game, clientVars, stopVars, uciVars>>
    /\ UNCHANGED <<root, iter, ret, infos, searches, bestmoves, cur, depth_read>>

\* a Rest loop that returns the next move whatever it is
skip_nothing(inner, best_move) == inner

\* MoveGenerator::next, the loop of the Rest state: what is left of the inner
\* generator once the moves equal to best_move at its head have been passed over
RECURSIVE skip_best_move(_, _)
skip_best_move(inner, best_move) ==
    IF inner # <<>> /\ best_move # NoMove /\ Head(inner) = best_move
    THEN skip_best_move(Tail(inner), best_move)
    ELSE inner

\* MoveGenerator::next
MoveGeneratorNextCall ==
    /\ wpc = "move_gen"
    /\ LET f == Top
           rest == skip_best_move(f.inner, f.best_move)
       IN  IF f.generator_state = "BestMove"
           THEN /\ stack' = <<[f EXCEPT !.generator_state = "Rest",
                                        !.yielded = Append(@, f.best_move)]>>
                /\ wpc' = "move_gen"
           ELSE IF rest # <<>>
           THEN /\ stack' = <<[f EXCEPT !.inner = Tail(rest),
                                        !.yielded = Append(@, Head(rest))]>>
                /\ wpc' = "move_gen"
           ELSE /\ stack' = <<[f EXCEPT !.inner = <<>>]>>
                /\ wpc' = "move_gen_end"
    /\ UNCHANGED <<hashVars, game, clientVars, stopVars, uciVars>>
    /\ UNCHANGED <<root, iter, ret, infos, searches, bestmoves, cur, depth_read>>

NextMoveGen == MoveGeneratorNew \/ MoveGeneratorNextCall

SpecMoveGen == InitMoveGen /\ [][NextMoveGen]_vars

\* the number of times move m was yielded
times_yielded(y, m) == Cardinality({i \in 1..Len(y) : y[i] = m})

\* C19: when the generator is exhausted it has yielded the hint first if there
\* was one and never again, then each legal move other than the hint once, in
\* the legal generator's order; without a hint it has yielded the legal moves.
C19_HintFirstThenRest ==
    wpc = "move_gen_end" =>
        LET y == Top.yielded
            hint == Top.best_move
            legal == new_legal(Top.pos)
            rest == IF hint # NoMove THEN Tail(y) ELSE y
        IN  /\ hint # NoMove => y # <<>> /\ y[1] = hint /\ times_yielded(y, hint) = 1
            /\ \A k \in 1..Len(legal) :
                   legal[k] # hint => times_yielded(y, legal[k]) = 1
            /\ \A i \in 1..Len(rest) : \E k \in 1..Len(legal) : rest[i] = legal[k]
            /\ \A i, j \in 1..Len(rest) :
                   i < j => \E k, l \in 1..Len(legal) :
                               k < l /\ legal[k] = rest[i] /\ legal[l] = rest[j]
            /\ hint = NoMove => y = legal
            /\ y = MoveGenerator(Top.pos, hint)

\* the hint was the second of two legal moves: it came first, then the other
C19_Witness ==
    /\ wpc = "move_gen_end"
    /\ Top.best_move = 2
    /\ Len(new_legal(Top.pos)) = 2
    /\ Top.yielded = <<2, 1>>

\* ------------------------------------------------------- negation of scores
\* bound: the evaluations around EVEN that are negated
MaxEvaluation == 10

\* i16
I16 == -32768..32767

\* the scores negated: the ends of every range of BoardScore, and evaluations
ScoreValues ==
    {NO_SCORE, WORST_SCORE, MATED, MATED + 1, MATED_RANGE_TOP - 1, MATED_RANGE_TOP,
     MATED_RANGE_TOP + 1, -9999, 9999, MATE_RANGE_BOTTOM - 1, MATE_RANGE_BOTTOM,
     MATE_RANGE_BOTTOM + 1, MATE - 1, MATE, BEST_SCORE}
        \cup (-MaxEvaluation..MaxEvaluation)

BoundedScores ==
    {Exact(s) : s \in ScoreValues} \cup {LowerBound(s) : s \in ScoreValues}
        \cup {UpperBound(s) : s \in ScoreValues}

InitScore ==
    /\ capacity = SearchCapacity
    /\ slots = [i \in 0..(capacity - 1) |-> ZeroEntry]
    /\ count = 0
    /\ generation = 0
    /\ last = [op |-> "new"]
    /\ written = {}
    /\ UciClientNew(TheGame, [go |-> 0, stop |-> 0, quit |-> FALSE,
                                    roots |-> {}, depths |-> {},
                                    movetimes |-> {0}])

\* BoundedScore::neg is called on a score, and again on its result
ScoreNeg ==
    /\ wpc = "recv"
    /\ \E b \in BoundedScores :
         stack' = <<[pc |-> "neg", self |-> b, negated |-> bounded_neg(b),
                     twice |-> bounded_neg(bounded_neg(b))]>>
    /\ UNCHANGED <<hashVars, game, clientVars, stopVars, uciVars>>
    /\ UNCHANGED <<wpc, root, iter, ret, infos, searches, bestmoves, cur, depth_read>>

SpecScore == InitScore /\ [][ScoreNeg]_vars

\* the kind of bound a negation turns `kind` into
swapped(kind) ==
    CASE kind = "Exact" -> "Exact"
      [] kind = "LowerBound" -> "UpperBound"
      [] kind = "UpperBound" -> "LowerBound"

\* C20: neg(neg(s)) = s for every score but NO_SCORE, neg(NO_SCORE) = NO_SCORE,
\* no negation leaves i16 (neg(BEST_SCORE) = WORST_SCORE, neg(MATE) = MATED); on
\* bounded scores neg negates the inner score, swaps LowerBound with UpperBound
\* and keeps Exact.
C20_NegInvolution ==
    (stack # <<>> /\ Top.pc = "neg") =>
        LET b == Top.self
            n == Top.negated
        IN  /\ n.s \in I16
            /\ b.s # NO_SCORE => n.s = 0 - b.s /\ Top.twice = b
            /\ b.s = NO_SCORE => n.s = NO_SCORE
            /\ b.s = BEST_SCORE => n.s = -32767 /\ n.s = WORST_SCORE
            /\ b.s = MATE => n.s = -32766 /\ n.s = MATED
            /\ n.kind = swapped(b.kind)
            /\ n.s = neg(b.s)

\* a lower bound of MATE has been negated: an upper bound of MATED
C20_Witness ==
    /\ stack # <<>>
    /\ Top.pc = "neg"
    /\ Top.self = LowerBound(MATE)
    /\ Top.negated = UpperBound(MATED)
    /\ Top.twice = LowerBound(MATE)

\* ------------------------------------------------- the ply count of mate scores
InitMatePlies == InitScore

\* increment_mate_plies and decrement_mate_plies are called on a score
ScoreMatePlies ==
    /\ wpc = "recv"
    /\ stack = <<>>
    /\ \E s \in I16 :
         stack' = <<[pc |-> "mate_plies", self |-> s,
                     incremented |-> increment_mate_plies(s),
                     decremented |-> decrement_mate_plies(s)]>>
    /\ UNCHANGED <<hashVars, game, clientVars, stopVars, uciVars>>
    /\ UNCHANGED <<wpc, root, iter, ret, infos, searches, bestmoves, cur, depth_read>>

SpecMatePlies == InitMatePlies /\ [][ScoreMatePlies]_vars

\* a call of the two functions has been made
MatePliesCalled == stack # <<>> /\ Top.pc = "mate_plies"

\* C21: increment_mate_plies(s) is s - 1 for s in (MATE - 255, MATE], s + 1 for
\* s in [MATED, MATED + 255), and s for every other score: evaluations,
\* NO_SCORE, BEST_SCORE, WORST_SCORE and the edges MATE - 255 and MATED + 255.
C21_IncrementMatePlies ==
    MatePliesCalled =>
        LET s == Top.self
            r == Top.incremented
        IN  /\ (s > MATE - 255 /\ s <= MATE) => r = s - 1
            /\ (s >= MATED /\ s < MATED + 255) => r = s + 1
            /\ ~(s > MATE - 255 /\ s <= MATE) /\ ~(s >= MATED /\ s < MATED + 255)
                  => r = s
            /\ s \in {NO_SCORE, BEST_SCORE, WORST_SCORE, MATE - 255, MATED + 255, 0}
                  => r = s

\* the saturated edge of the winning range was incremented and stayed
C21_Witness ==
    /\ MatePliesCalled
    /\ Top.self = MATE - 255
    /\ Top.incremented = MATE - 255

\* C22 as stated: decrement_mate_plies never gives more than MATE on the winning
\* range [MATE - 255, MATE], with decrement_mate_plies(MATE) = MATE, never gives
\* less than MATED on the mated range, and leaves evaluations as they are.
C22_DecrementSaturates ==
    MatePliesCalled =>
        LET s == Top.self
            r == Top.decremented
        IN  /\ (s >= MATE - 255 /\ s <= MATE) => r <= MATE
            /\ s = MATE => r = MATE
            /\ (s >= MATED /\ s <= MATED + 255) => r >= MATED
            /\ (s > MATED + 255 /\ s < MATE - 255) => r = s

\* ------------------------------------------------------ the text of a score
\* a division that rounds down
floor_div(a, b) == a \div b

\* i32 division: the quotient is rounded toward zero
i32_div(a, b) == IF a >= 0 THEN a \div b ELSE 0 - ((0 - a) \div b)

\* enum BoardScoreDescription
Cp(cp) == [unit |-> "cp", n |-> cp]
Mate(mate) == [unit |-> "mate", n |-> mate]

\* Into<BoardScoreDescription> for &BoardScore
into_description(s) ==
    IF s >= MATE_RANGE_BOTTOM THEN Mate(i32_div(MATE - s + 1, 2))
    ELSE IF s <= MATED_RANGE_TOP THEN Mate(i32_div(MATED - s, 2))
    ELSE Cp(s)

\* Display for BoardScore: "cp {cp}" or "mate {mate}", as the word and the number
fmt(s) == into_description(s)

\* a score is printed
ScoreFmt ==
    /\ wpc = "recv"
    /\ stack = <<>>
    /\ \E s \in I16 :
         stack' = <<[pc |-> "fmt", self |-> s, text |-> fmt(s)]>>
    /\ UNCHANGED <<hashVars, game, clientVars, stopVars, uciVars>>
    /\ UNCHANGED <<wpc, root, iter, ret, infos, searches, bestmoves, cur, depth_read>>

SpecFmt == InitScore /\ [][ScoreFmt]_vars

ScorePrinted == stack # <<>> /\ Top.pc = "fmt"

\* C23: a score s >= MATE - 255 prints as mate K with K = (MATE - s + 1) / 2, a
\* score s <= MATED + 255 as mate K with K = (MATED - s) / 2 rounded toward
\* zero, and any other score as cp s; so MATE - 1 is mate 1, MATE - 3 mate 2,
\* MATED + 2 mate -1 and MATED + 4 mate -2.
C23_ScoreText ==
    ScorePrinted =>
        LET s == Top.self
            t == Top.text
        IN  /\ s >= MATE - 255 =>
                  /\ t.unit = "mate"
                  /\ 2 * t.n \in {MATE - s, MATE - s + 1}
            /\ s <= MATED + 255 =>
                  /\ t.unit = "mate"
                  /\ s >= MATED => 2 * t.n \in {MATED - s, MATED - s + 1}
                  /\ s < MATED => 2 * t.n \in {MATED - s, MATED - s - 1}
            /\ (s > MATED + 255 /\ s < MATE - 255) => t = [unit |-> "cp", n |-> s]
            /\ s = MATE - 1 => t.n = 1
            /\ s = MATE - 3 => t.n = 2
            /\ s = MATED + 2 => t.n = -1
            /\ s = MATED + 4 => t.n = -2

\* mated in 3 plies was printed as mate -1: the odd ply count is rounded
\* toward zero
C23_Witness ==
    /\ ScorePrinted
    /\ Top.self = MATED + 3
    /\ Top.text = [unit |-> "mate", n |-> -1]

\* C22: decrement_mate_plies(s) is s + 1 on the winning range [MATE - 255, MATE],
\* so it never gives more than BEST_SCORE and decrement_mate_plies(MATE) =
\* BEST_SCORE; it is s - 1 on the mated range [MATED, MATED + 255], so it never
\* gives less than WORST_SCORE and decrement_mate_plies(MATED) = WORST_SCORE; it
\* leaves evaluations as they are.
C22_DecrementToBestScore ==
    MatePliesCalled =>
        LET s == Top.self
            r == Top.decremented
        IN  /\ (s >= MATE - 255 /\ s <= MATE) => r = s + 1 /\ r <= BEST_SCORE
            /\ s = MATE => r = BEST_SCORE
            /\ (s >= MATED /\ s <= MATED + 255) => r = s - 1 /\ r >= WORST_SCORE
            /\ s = MATED => r = WORST_SCORE
            /\ (s > MATED + 255 /\ s < MATE - 255) => r = s

\* MATE was decremented to BEST_SCORE
C22_Witness ==
    /\ MatePliesCalled
    /\ Top.self = MATE
    /\ Top.decremented = BEST_SCORE

\* --------------------------------------------- the order of bounded scores
\* two bounded scores are compared
ScoreCompare ==
    /\ wpc = "recv"
    /\ stack = <<>>
    /\ \E x \in BoundedScores, y \in BoundedScores :
         stack' = <<[pc |-> "partial_cmp", self |-> x, other |-> y,
                     ordering |-> partial_cmp(x, y),
                     reverse |-> partial_cmp(y, x),
                     eq |-> bounded_eq(x, y)]>>
    /\ UNCHANGED <<hashVars, game, clientVars, stopVars, uciVars>>
    /\ UNCHANGED <<wpc, root, iter, ret, infos, searches, bestmoves, cur, depth_read>>

SpecCompare == InitScore /\ [][ScoreCompare]_vars

\* partial_cmp was called on a pair of the kinds `self_kind` and `other_kind`
Compared(self_kind, other_kind) ==
    /\ stack # <<>>
    /\ Top.pc = "partial_cmp"
    /\ Top.self.kind = self_kind
    /\ Top.other.kind = other_kind

\* self >= other through PartialOrd
ge_holds == Top.ordering \in {"Greater", "Equal"}

\* C24 as stated: partial_cmp(UpperBound(a), Exact(b)) is incomparable whenever
\* a < b, and LowerBound(a) >= Exact(b) is decided and true whenever a >= b.
C24_UpperBelowExactUndecided ==
    /\ (Compared("UpperBound", "Exact") /\ Top.self.s < Top.other.s)
          => Top.ordering = "None"
    /\ (Compared("LowerBound", "Exact") /\ Top.self.s >= Top.other.s) => ge_holds

\* C24: partial_cmp(UpperBound(a), Exact(b)) is incomparable whenever a > b and
\* Less whenever a < b, so UpperBound(a) >= Exact(b) does not hold in either
\* case; LowerBound(a) >= Exact(b) is decided and true whenever a >= b.
C24_UpperAboveExactUndecided ==
    /\ (Compared("UpperBound", "Exact") /\ Top.self.s > Top.other.s)
          => Top.ordering = "None"
    /\ (Compared("UpperBound", "Exact") /\ Top.self.s < Top.other.s)
          => Top.ordering = "Less" /\ ~ge_holds
    /\ (Compared("LowerBound", "Exact") /\ Top.self.s >= Top.other.s) => ge_holds

\* an upper bound of 10 was compared with the exact score -10
C24_Witness ==
    /\ Compared("UpperBound", "Exact")
    /\ Top.self.s = 10
    /\ Top.other.s = -10
    /\ Top.ordering = "None"

\* C25: for a > b, Exact(a) > UpperBound(b) and LowerBound(a) > Exact(b) hold;
\* for all a and b, UpperBound(a) > Exact(b), UpperBound(a) > LowerBound(b),
\* LowerBound(a) < Exact(b) and LowerBound(a) < UpperBound(b) do not hold.
C25_OnlyWhatBoundsProve ==
    /\ (Compared("Exact", "UpperBound") /\ Top.self.s > Top.other.s)
          => Top.ordering = "Greater"
    /\ (Compared("LowerBound", "Exact") /\ Top.self.s > Top.other.s)
          => Top.ordering = "Greater"
    /\ Compared("UpperBound", "Exact") => Top.ordering # "Greater"
    /\ Compared("UpperBound", "LowerBound") => Top.ordering # "Greater"
    /\ Compared("LowerBound", "Exact") => Top.ordering # "Less"
    /\ Compared("LowerBound", "UpperBound") => Top.ordering # "Less"

\* a lower bound of 0 was compared with the exact score 10: not less, undecided
C25_Witness ==
    /\ Compared("LowerBound", "Exact")
    /\ Top.self.s = 0
    /\ Top.other.s = 10
    /\ Top.ordering = "None"


\* ---------------------------------------------- uci.rs, the command handlers
\* A command line is the sequence of its words after the command word.
\* ChessMove::from_str: the words that are moves, a move being its index in
\* the legal moves of a position
MoveWords == <<"a2a3", "b2b3">>

\* Board::from_str: the strings that are the FEN of a position
FenWords == [p \in {5} |-> "fen5"]

Ok(v) == [ok |-> TRUE, v |-> v]
Err == [ok |-> FALSE, v |-> 0]

ChessMove_from_str(move_str) ==
    IF \E m \in DOMAIN MoveWords : MoveWords[m] = move_str
    THEN Ok(CHOOSE m \in DOMAIN MoveWords : MoveWords[m] = move_str)
    ELSE Err

Board_from_str(fen_str) ==
    IF Len(fen_str) = 1 /\ \E p \in DOMAIN FenWords : FenWords[p] = fen_str[1]
    THEN Ok(CHOOSE p \in DOMAIN FenWords : FenWords[p] = fen_str[1])
    ELSE Err

\* the decimal words and the numbers they are
Numbers == [w \in {"1", "300"} |-> IF w = "1" THEN 1 ELSE 300]

\* u8::from_str, u32::from_str: a number that fits the type's bits
from_str(str, bits) ==
    IF str \in DOMAIN Numbers /\ Numbers[str] \div (2 ^ (bits - 8)) < 256
    THEN Ok(Numbers[str])
    ELSE Err

\* str::find("moves") on the words: the index of the first one, 0 if none
find_moves(arguments) ==
    IF \E i \in 1..Len(arguments) : arguments[i] = "moves"
    THEN CHOOSE i \in 1..Len(arguments) :
            /\ arguments[i] = "moves"
            /\ \A j \in 1..(i - 1) : arguments[j] # "moves"
    ELSE 0

\* command_position, the loop over the moves: the position reached, the error
\* it stopped at, and the number of moves made
RECURSIVE moves_loop(_, _, _)
moves_loop(result_position, arguments, made) ==
    IF arguments = <<>>
    THEN [position |-> result_position, error |-> "", made |-> made]
    ELSE LET next_move == ChessMove_from_str(Head(arguments))
         IN  IF ~next_move.ok
             THEN [position |-> result_position, error |-> "Invalid move", made |-> made]
             ELSE IF ~SeqContains(new_legal(result_position), next_move.v)
             THEN [position |-> result_position, error |-> "Illegal move", made |-> made]
             ELSE moves_loop(make_move_new(result_position, next_move.v),
                             Tail(arguments), made + 1)

\* command_position, "Optionally parse moves"
optional_moves(result_position, arguments) ==
    IF arguments = <<>>
    THEN [position |-> result_position, error |-> "", made |-> 0]
    ELSE IF Head(arguments) = "moves"
    THEN moves_loop(result_position, Tail(arguments), 0)
    ELSE [position |-> result_position, error |-> "Unexpected word", made |-> 0]

\* command_position up to its last statement: result_position, the error
\* printed, and the number of moves made
parse_position(arguments) ==
    IF arguments # <<>> /\ Head(arguments) = "startpos"
    THEN optional_moves(Board_default, Tail(arguments))
    ELSE IF arguments # <<>> /\ Head(arguments) = "fen"
    THEN LET arguments_str == Tail(arguments)
             moves_idx == find_moves(arguments_str)
             fen_str == IF moves_idx # 0 THEN SubSeq(arguments_str, 1, moves_idx - 1)
                        ELSE arguments_str
             moves_str == IF moves_idx # 0
                          THEN SubSeq(arguments_str, moves_idx, Len(arguments_str))
                          ELSE <<>>
             board == Board_from_str(fen_str)
         IN  IF board.ok THEN optional_moves(board.v, moves_str)
             ELSE [position |-> 0, error |-> "Invalid FEN", made |-> 0]
    ELSE [position |-> 0, error |-> "Expected 'startpos' or 'fen'", made |-> 0]

\* a command_position that makes the moves on self.position
command_position_in_place(self_position, arguments) ==
    LET r == parse_position(arguments)
    IN  [r EXCEPT !.position = IF r.made > 0 \/ r.error = "" THEN r.position
                               ELSE self_position]

\* UciClient::command_position: self.position afterwards, and what was printed
command_position(self_position, arguments) ==
    LET r == parse_position(arguments)
    IN  [r EXCEPT !.position = IF r.error = "" THEN r.position ELSE self_position]

\* command_go, the loop over the specifiers: the stop conditions built and the
\* error printed
RECURSIVE command_go(_, _)
command_go(stop_conditions, arguments) ==
    IF arguments = <<>> THEN [stop_conditions |-> stop_conditions, error |-> ""]
    ELSE LET word == Head(arguments)
             str == IF Len(arguments) > 1 THEN arguments[2] ELSE ""
             rest == IF Len(arguments) > 1 THEN Tail(Tail(arguments)) ELSE <<>>
         IN  IF word = "depth"
             THEN LET depth_parsed == from_str(str, 8)
                  IN  IF depth_parsed.ok
                      THEN command_go([stop_conditions EXCEPT !.depth = depth_parsed.v], rest)
                      ELSE [stop_conditions |-> stop_conditions, error |-> "Invalid depth"]
             ELSE IF word = "movetime"
             THEN LET movetime_parsed == from_str(str, 32)
                  IN  IF movetime_parsed.ok
                      THEN command_go([stop_conditions EXCEPT !.movetime = movetime_parsed.v],
                                      rest)
                      ELSE [stop_conditions |-> stop_conditions, error |-> "Invalid movetime"]
             ELSE [stop_conditions |-> stop_conditions, error |-> "Unknown specifier"]

\* StopConditions::new
StopConditions_new == [depth |-> 255, movetime |-> 0]

\* bounds: the moves of a position command and the specifiers of a go command
MaxMoves == 2
MaxSpecifiers == 2

RECURSIVE Lists(_, _)
Lists(S, n) ==
    IF n = 0 THEN {<<>>}
    ELSE Lists(S, n - 1) \cup {<<x>> \o l : x \in S, l \in Lists(S, n - 1)}

RECURSIVE Flatten(_)
Flatten(ll) == IF ll = <<>> THEN <<>> ELSE Head(ll) \o Flatten(Tail(ll))

\* the position commands given
PositionLines ==
    {<<>>, <<"moves", "a2a3">>} \cup
    {first \o second \o moves :
        first \in {<<"startpos">>, <<"fen", "fen5">>, <<"fen", "8/8">>},
        second \in {<<>>, <<"moves">>},
        moves \in Lists({"a2a3", "b2b3", "a2a9"}, MaxMoves)}

\* the go commands given
GoLines ==
    {Flatten(l) :
        l \in Lists({<<"depth", "1">>, <<"depth", "300">>, <<"movetime", "300">>,
                     <<"movetime", "-1">>, <<"infinite">>},
                    MaxSpecifiers)}

\* main_loop, "position": UciClient::command_position
CommandPosition ==
    /\ upc = "idle"
    /\ \E arguments \in PositionLines :
         LET r == command_position(uci_position, arguments)
         IN  /\ uci_position' = r.position
             /\ reply' = [command |-> "position", error |-> r.error, made |-> r.made]
    /\ UNCHANGED <<hashVars, game, stopVars, uciVars, workerVars>>

\* main_loop, "go": UciClient::command_go, and SearchInterface::go up to its
\* is_running test
CommandGo ==
    /\ upc = "idle"
    /\ \E arguments \in GoLines :
         LET r == command_go(StopConditions_new, arguments)
         IN  /\ reply' = [command |-> "go", error |-> r.error, made |-> 0]
             /\ IF r.error # ""
                THEN UNCHANGED <<stop_now, upc, uarg, plan>>
                ELSE /\ plan.go > 0
                     /\ plan' = [plan EXCEPT !.go = @ - 1]
                     /\ uarg' = [position |-> uci_position,
                                 depth |-> r.stop_conditions.depth,
                                 movetime |-> r.stop_conditions.movetime]
                     /\ stop_now' = IF is_running THEN TRUE ELSE stop_now
                     /\ upc' = IF is_running THEN "go_spin" ELSE "go_clear"
    /\ UNCHANGED <<hashVars, game, uci_position, is_running, depth_cap, movetime>>
    /\ UNCHANGED <<channel, workerVars>>

\* main_loop, "stop": UciClient::command_stop
CommandStop ==
    /\ upc = "idle"
    /\ stop_now' = TRUE
    /\ reply' = [command |-> "stop", error |-> "", made |-> 0]
    /\ UNCHANGED <<hashVars, game, uci_position, is_running, depth_cap, movetime>>
    /\ UNCHANGED <<uciVars, workerVars>>

\* the command loop on its own: the commands are handled one after another,
\* and go() runs to its end before the next one is read
InitUci ==
    /\ capacity = SearchCapacity
    /\ slots = [i \in 0..(capacity - 1) |-> ZeroEntry]
    /\ count = 0
    /\ generation = 0
    /\ last = [op |-> "new"]
    /\ written = {}
    /\ UciClientNew(TheGame, [go |-> 1, stop |-> 0, quit |-> FALSE,
                              roots |-> {}, depths |-> {}, movetimes |-> {}])

NextUci ==
    \/ CommandPosition
    \/ CommandGo
    \/ CommandStop
    \/ GoClear
    \/ GoAssign
    \/ GoSend

SpecUci == InitUci /\ [][NextUci]_vars

\* the command handled by this step printed an error
Failed(command) == reply'.command = command /\ reply'.error # ""

\* C26: a position command that fails leaves the position as it was, also when
\* some of its moves were legal; a go command that fails starts no search and
\* changes no stop condition; and the loop goes on to the next command.
C26_InputErrorsChangeNothing ==
    [][/\ Failed("position") =>
            /\ uci_position' = uci_position
            /\ upc' = "idle"
            /\ UNCHANGED <<hashVars, stopVars, channel, uarg, workerVars>>
       /\ Failed("go") =>
            /\ upc' = "idle"
            /\ UNCHANGED <<stop_now, is_running, depth_cap, movetime>>
            /\ UNCHANGED <<uci_position, channel, uarg, hashVars, workerVars>>]_vars

\* a position command has failed at an illegal move after a legal one, on a
\* position other than the starting position
C26_Witness ==
    /\ reply.command = "position"
    /\ reply.error = "Illegal move"
    /\ reply.made > 0
    /\ uci_position # Board_default
    /\ upc = "idle"


\* --------------------------------------- evaluation.rs, the piece values
\* A board, to the evaluation, is the number of pieces of each kind and colour
\* and the side to move.
Pieces == {"Queen", "Rook", "Knight", "Bishop", "Pawn"}
Colors == {"White", "Black"}

\* bound: the pieces of one kind and colour
MaxPieces == 1

Boards ==
    [pieces : [Pieces -> [Colors -> 0..MaxPieces]], side_to_move : Colors]

\* the closure piece_balance: white pieces minus black pieces of a kind
piece_balance(board, piece) ==
    board.pieces[piece]["White"] - board.pieces[piece]["Black"]

\* evaluation::evaluate_piece_values, on the pieces of a board
piece_values(board) ==
    900 * piece_balance(board, "Queen")
    + 500 * piece_balance(board, "Rook")
    + 300 * piece_balance(board, "Knight")
    + 300 * piece_balance(board, "Bishop")
    + 100 * piece_balance(board, "Pawn")

\* the same pieces with the other side to move
other_color(color) == IF color = "White" THEN "Black" ELSE "White"
null_move(board) == [board EXCEPT !.side_to_move = other_color(@)]

\* the material of one side, in centipawns
material(board, color) ==
    900 * board.pieces["Queen"][color]
    + 500 * board.pieces["Rook"][color]
    + 300 * board.pieces["Knight"][color]
    + 300 * board.pieces["Bishop"][color]
    + 100 * board.pieces["Pawn"][color]

\* Searcher::static_evaluation of a board and of the same pieces with the
\* other side to move
StaticEvaluation ==
    /\ wpc = "recv" /\ stack = <<>>
    /\ \E board \in Boards :
         stack' = <<[pc |-> "static_evaluation", self |-> board,
                     score |-> piece_values(board),
                     other |-> piece_values(null_move(board))]>>
    /\ UNCHANGED <<hashVars, game, clientVars, stopVars, uciVars>>
    /\ UNCHANGED <<wpc, root, iter, ret, infos, searches, bestmoves, cur, depth_read>>

SpecEvaluation == InitScore /\ [][StaticEvaluation]_vars

Evaluated == stack # <<>> /\ Top.pc = "static_evaluation"

\* C27: the static evaluation is from the side to move's point of view: it is
\* positive when the side to move has more material, and the same pieces with
\* the other side to move score the negation.
C27_SideToMovePerspective ==
    Evaluated =>
        /\ material(Top.self, Top.self.side_to_move)
             > material(Top.self, other_color(Top.self.side_to_move))
           => Top.score > 0
        /\ Top.other = neg(Top.score)


\* ------------------------------------------- the iterations of a search
\* go, with and without a depth cap, stop, and go again while the search runs
IterDepths == {1, 2, 255}

InitIter ==
    /\ capacity = SearchCapacity
    /\ slots = [i \in 0..(capacity - 1) |-> ZeroEntry]
    /\ count = 0
    /\ generation = 0
    /\ last = [op |-> "new"]
    /\ written = {}
    /\ UciClientNew(TheGame, [go |-> 2, stop |-> 1, quit |-> FALSE,
                              roots |-> {10}, depths |-> IterDepths,
                              movetimes |-> {0}])

NextIter ==
    \/ GoIsRunning
    \/ GoClear
    \/ GoAssign
    \/ GoSend
    \/ Stop
    \/ WorkerRecvGo
    \/ SearchLoopStop
    \/ SearchLoopDepth
    \/ AlphabetaEntry
    \/ AlphabetaAfterChild
    \/ AlphabetaStore

SpecIter == InitIter /\ [][NextIter]_vars

\* search() is in its loop
in_search == wpc \in {"loop_stop", "loop_depth", "alphabeta"}

\* this step starts an iteration: alphabeta_search is called on the root
starts_iteration == wpc = "loop_depth" /\ wpc' = "alphabeta"

\* this step prints an info line
prints_info == infos' # infos /\ infos' # <<>>

\* C28: the iterations of a search have the depths 1, 2, ..., none starts with
\* a depth above the depth cap or above 255, or once the stop is seen at the
\* head of the loop; so the info lines are at most min(cap, 255), their depths
\* 1, 2, ..., and the bestmove line, at most one, follows them.
C28_IterationsWithinCap ==
    [][/\ starts_iteration =>
            /\ iter = Len(infos) + 1
            /\ iter <= depth_cap /\ iter <= 255
            /\ stack' = <<Frame(iter, root, WORST_SCORE, BEST_SCORE)>>
       /\ wpc = "loop_stop" /\ stop_now => wpc' # "loop_depth"
       /\ prints_info =>
            /\ in_search
            /\ infos' = Append(infos, Len(infos) + 1)
            /\ Len(infos') <= depth_read /\ Len(infos') <= 255
            /\ iter' = iter + 1
       /\ bestmoves' # bestmoves =>
            /\ Len(bestmoves') = Len(bestmoves) + 1
            /\ in_search /\ ~in_search'
            /\ infos' = infos
            /\ Len(bestmoves') <= searches]_vars

\* a search with no depth cap given has run its 255 iterations and printed its
\* bestmove
C28_Witness ==
    /\ Len(infos) = 255
    /\ infos[255] = 255
    /\ depth_read = 255
    /\ Len(bestmoves) = searches
    /\ wpc = "recv"


\* ------------------------------------------------- deficient child results
\* the move loop is about to look at the result of the recursive call
child_returned == wpc = "alphabeta" /\ Top.pc = "wait"

\* the test of the move loop on search_score: the search was deficient
deficient_result ==
    LET search_score == bounded_neg(bounded_increment_mate_plies(ret.value))
    IN  \/ unwrap(search_score) = NO_SCORE
        \/ is_lowerbound(search_score) /\ unwrap(search_score) < Top.beta
        \/ is_upperbound(search_score) /\ unwrap(search_score) > Top.alpha

\* C29: whenever the move loop marks a child result deficient, should_stop is
\* true at that moment, so the debug assertion holds, whatever go() and stop()
\* do meanwhile.
C29_DeficientOnlyIfStopping ==
    child_returned /\ deficient_result =>
        \A elapsed \in ClockReadings : should_stop_search(elapsed)


\* ------------------------------------------ the depth an entry is stored at
\* the games of the stored depths: position 7 is stalemate or checkmate
StoreGames == {[TheGame EXCEPT ![7].check = c] : c \in BOOLEAN}

\* go and go again, with a stop in between or not
InitStore ==
    /\ capacity = SearchCapacity
    /\ slots = [i \in 0..(capacity - 1) |-> ZeroEntry]
    /\ count = 0
    /\ generation = 0
    /\ last = [op |-> "new"]
    /\ written = {}
    /\ \E g \in StoreGames :
         UciClientNew(g, [go |-> 2, stop |-> 1, quit |-> FALSE,
                          roots |-> {5}, depths |-> {1, 2},
                          movetimes |-> {0}])

SpecStore == InitStore /\ [][NextIter]_vars

\* alphabeta_search is past its move loop, and this step takes it to its return
stores == wpc = "alphabeta" /\ Top.pc = "store" /\ stack' # stack

\* the score and the depth of the node after `if !any_moves { .. }`
final_score(f) ==
    IF f.any_moves THEN f.best_score
    ELSE IF game[f.pos].check THEN Exact(MATED)
    ELSE Exact(EVEN)
final_depth(f) == IF f.any_moves THEN f.depth ELSE 255

\* the depth the claim gives the entry, should_stop being `stopping`
claimed_depth(f, stopping) ==
    IF f.deficient_search \/ stopping THEN final_depth(f) - 1
    ELSE IF is_exact(final_score(f)) /\ is_mate_score(unwrap(final_score(f))) THEN 255
    ELSE final_depth(f)

\* C30: the entry alphabeta_search writes for a node searched at depth d (255
\* for a node without legal moves) has depth d - 1 if a child was deficient or
\* should_stop is true at the store, else 255 for an exact mate score, else d;
\* d - 1 is never below 0; and nothing is written for a score of NO_SCORE.
C30_StoreDepth ==
    [][stores =>
        IF unwrap(final_score(Top)) = NO_SCORE
        THEN UNCHANGED hashVars
        ELSE /\ last'.op = "insert"
             /\ last'.hash = PosHash(Top.pos)
             /\ slots'[last'.slot].hash = PosHash(Top.pos)
             /\ entry_score(slots'[last'.slot]) = final_score(Top)
             /\ \E elapsed \in ClockReadings :
                  slots'[last'.slot].depth
                      = claimed_depth(Top, should_stop_search(elapsed))
             /\ slots'[last'.slot].depth \in 0..255
             /\ \A i \in DOMAIN slots : i # last'.slot => slots'[i] = slots[i]]_vars

\* a node searched at depth 2 with a deficient child has been stored at depth 1
C30_Witness ==
    /\ last.op = "insert"
    /\ ret.via = "searched"
    /\ last.hash = PosHash(ret.pos)
    /\ ret.depth = 2
    /\ last.contents[3] = 1
    /\ slots[last.slot].depth = 1
    /\ ~stop_now


\* ------------------------------------------ the window of a recursive call
\* the alphabeta_search calls that have just been made
entered == {i \in 1..Len(stack) : stack[i].pc = "entry"}

\* C31: every alphabeta_search call, the root call and the recursive ones, is
\* made with alpha and beta other than NO_SCORE and alpha <= beta, also when
\* alpha was raised in the move loop and the window is decremented and negated.
C31_WindowPreconditions ==
    wpc = "alphabeta" =>
        \A i \in entered :
            /\ stack[i].alpha # NO_SCORE
            /\ stack[i].beta # NO_SCORE
            /\ stack[i].alpha <= stack[i].beta

\* a recursive call has been made after alpha was raised to a mate score, with
\* a window that the decrement has changed
C31_Witness ==
    /\ wpc = "alphabeta"
    /\ Len(stack) >= 2
    /\ Top.pc = "entry"
    /\ LET f == stack[Len(stack) - 1]
       IN  /\ f.alpha # f.alpha0
           /\ is_mate_score(f.alpha)
           /\ Top.beta # neg(f.alpha)
           /\ Top.alpha < Top.beta


\* ------------------------------------------- info lines and interruptions
\* the root call that returns in this step was interrupted: it saw should_stop
\* at its start, one of its children was deficient, or the stop is set as it
\* returns
interrupted ==
    \/ ret'.is_stopping
    \/ Top.deficient_search
    \/ \E elapsed \in ClockReadings : should_stop_search(elapsed)

\* C32: an info line for depth d is printed only when the root call of depth d
\* ran to its end with should_stop false throughout: no info line reports an
\* iteration that stop or movetime interrupted.
C32_InfoOnlyForCompletedDepth ==
    [][prints_info => ~interrupted]_vars


\* ------------------------------------------------ what insert does to count
\* this step is insert(h, e), and it writes slot i
inserts(h, i) == last'.op = "insert" /\ last'.hash = h /\ last'.slot = i

\* C33: for a hash that is not stored (hash 0 included), an insert that lands in
\* an Unused candidate adds one to filled(); an insert that overwrites the
\* hash's own entry in place leaves filled() as it is.
C33_InsertCounts ==
    [][\A h \in Hashes, i \in DOMAIN slots :
         inserts(h, i) =>
            /\ (get(slots, capacity, h) = None /\ ~is_used(slots[i].entry_type))
                    => count' = count + 1
            /\ (get(slots, capacity, h) # None /\ is_used(slots[i].entry_type)
                    /\ slots[i].hash = h)
                    => count' = count]_vars


\* ------------------------------------------- the candidates that match a hash
\* C34: whatever hash is inserted next, at most one of its four candidates has
\* it in its hash field, on the zero-filled table too, so the assertion of
\* get_existing_slot that there is no second match never fires.
C34_OneExistingSlot ==
    \A h \in Hashes :
        Len(get_existing_slot(slots, h, get_slot_idx_for_hash(h, capacity))) <= 1


\* ------------------------------------------------- the count of the table
\* the slots in use whose generation field is the current generation
current_slots == {i \in used_slots : slots[i].generation = generation}

\* HashMap::filled
filled == count

\* search(): the hashfull value of the info line
hashfull == (1000 * filled) \div capacity

\* C35: after any sequence of insert and new_generation, filled() is at most
\* the number of slots in use whose generation field is the current
\* generation, hence at most capacity, and the hashfull value
\* 1000 * filled / capacity is at most 1000.
C35_FilledWithinGeneration ==
    /\ filled <= Cardinality(current_slots)
    /\ filled <= capacity
    /\ hashfull <= 1000

\* a table whose candidate slots are all of this generation, and counted
C35_Witness ==
    /\ generation > 0
    /\ filled = NUM_SLOTS_PER_HASH
    /\ last.op = "insert" /\ is_used(last.old.entry_type)
    /\ last.old.hash # last.hash
    /\ last.old.generation = generation


\* --------------------------------------------- the generation counter wraps
\* the number of values of the u8 generation counter
GenerationPeriod == 256

\* `n` calls of HashMap::new_generation with no write between them
new_generations(n) ==
    /\ generation' = (generation + n) % 256
    /\ count' = 0
    /\ last' = [op |-> "new_generation"]
    /\ written' = {}
    /\ UNCHANGED <<slots, capacity>>

\* one new_generation, or as many as bring the counter back to its value
HashNewGenerations ==
    /\ \E n \in {1, GenerationPeriod} :
         /\ (generation + n) % 256 <= MaxGeneration
         /\ new_generations(n)
    /\ UNCHANGED searchVars

WrapNext == HashInsert \/ HashNewGenerations

SpecWrap == HashInit /\ [][WrapNext]_vars

\* the candidate slots of `h` holding an entry written before the latest
\* new_generation
stale_candidates(h) ==
    {j \in SeqRange(get_slot_idx_for_hash(h, capacity)) :
        is_used(slots[j].entry_type) /\ j \notin written}

\* the step inserts `h` into slot `i` over an entry for another hash that was
\* written since the latest new_generation
evicts_fresh(h, i) ==
    /\ inserts(h, i)
    /\ is_used(slots[i].entry_type) /\ slots[i].hash # h
    /\ i \in written

\* C36: for any number of new_generation calls between writes, 256 or more
\* included, insert never evicts an entry for a different hash written since
\* the latest new_generation while one of the four candidate slots holds an
\* entry written before the latest new_generation.
C36_StaleEvictedFirst ==
    [][\A h \in Hashes, i \in DOMAIN slots :
         evicts_fresh(h, i) => stale_candidates(h) = {}]_vars

\* the same, for the steps on which no candidate slot holds an entry that is
\* a whole number of counter periods old
StaleEvictedFirstWithinPeriod ==
    [][\A h \in Hashes, i \in DOMAIN slots :
         (evicts_fresh(h, i)
            /\ \A j \in stale_candidates(h) : slots[j].generation # generation)
         => stale_candidates(h) = {}]_vars


\* ------------------------------------------------- a root without a move
\* the search in progress, or the last one, is of a checkmate or stalemate
root_has_no_move == searches > 0 /\ new_legal(root) = <<>>

\* C37: search() on a root position with no legal move, checkmate or
\* stalemate, completes and returns to the command loop without panicking,
\* for every depth cap.
C37_NoMoveRootReturns ==
    root_has_no_move => wpc # "panicked"


\* ---------------------------------------------------- NO_SCORE stays inside
\* alphabeta_search has returned
returned == ret.via # "none"

\* C38: alphabeta_search never returns a bounded score whose inner score is
\* NO_SCORE, stopped or not, and no table entry stores NO_SCORE, so the entry
\* the probe fetches never has the score NO_SCORE.
C38_NoScoreNeverLeaves ==
    /\ returned => unwrap(ret.value) # NO_SCORE
    /\ \A i \in used_slots : slots[i].score # NO_SCORE
    /\ \A p \in Positions :
         get(slots, capacity, PosHash(p)) # None
            => unwrap(entry_score(get(slots, capacity, PosHash(p)))) # NO_SCORE

\* a call that searched its moves while the search was being stopped has
\* stored and returned a score
C38_Witness ==
    /\ returned /\ ret.via = "searched" /\ stop_now
    /\ last.op = "insert" /\ last.contents[2] = ret.value
    /\ ret.depth > last.contents[3]

\* ------------------------------------------ the order and the equality
\* Ordering::reverse
ordering_reverse(o) ==
    CASE o = "Less" -> "Greater"
      [] o = "Greater" -> "Less"
      [] OTHER -> o

\* partial_cmp was called on some pair
compared == stack # <<>> /\ Top.pc = "partial_cmp"

\* C39: the order of bounded scores is consistent with their equality: for all
\* x and y, partial_cmp(x, y) is Equal if and only if x == y, and
\* partial_cmp(y, x) is the reverse of partial_cmp(x, y).
C39_OrderConsistentWithEq ==
    compared =>
        /\ (Top.ordering = "Equal") <=> Top.eq
        /\ Top.reverse = ordering_reverse(Top.ordering)

=============================================================================
